---- MODULE Spec2Model ----
(***************************************************************************)
(* legalscanner: the scan orchestration engine.                            *)
(*                                                                         *)
(* The persisted Scan row (db/models/scan.rs) with its four UPDATE         *)
(* statements, and the background scan job (api/handlers/scan_job.rs):     *)
(* execute_scan_job, execute_scan_internal with its two joined adapter     *)
(* branches, store_scan_results and the workspace (git/workspace.rs).      *)
(* The Fossology adapter (scanner/fossology/mod.rs) with the two polls of  *)
(* its client (scanner/fossology/client.rs), and merge_scan_results.       *)
(***************************************************************************)
EXTENDS Integers, Sequences, FiniteSets, TLC

(***************************** bounds **************************************)
\* datetime('now') takes the values 1..MaxClock
MaxClock == 3
\* an adapter returns findings for at most MaxRows rows
MaxRows == 1
\* a status request of the readiness poll takes MinRequestMs or MaxRequestMs
\* milliseconds (the client gives up on a request after 300 s)
MinRequestMs == 1
MaxRequestMs == 1000
\* the job-completion poll remembers the outcome of its last HistoryLen requests
HistoryLen == 5
\* the two lists given to merge_scan_results have at most MaxMergeLen records
MaxMergeLen == 2
\* a license-name pattern and a license name given to get_license_weight
\* have at most MaxPatternLen characters
MaxPatternLen == 3
\* a scan has at most MaxFindings rows in scan_results, the permissive
\* license findings not counted
MaxFindings == 2

(***************************** values **************************************)
\* Option<String> timestamp that is NULL in the row
NullTime == 0
\* Option<String> error that is NULL in the row
NoError == "NULL"

Statuses == {"pending", "in_progress", "completed", "failed"}

\* ScanError / io / git2 / sqlx errors, as the strings e.to_string() gives
FossologyErr == "Scan failed: fossology"
SemgrepErr   == "Scan failed: semgrep"
CloneErr     == "git2: clone failed"
CreateErr    == "io: create_dir_all failed"
CleanupErr   == "io: remove_dir_all failed"
StoreErr     == "sqlx: insert failed"
DbErr        == "sqlx: update failed"

\* ScanError values of the Fossology client
UploadErr       == "Failed: Upload failed"
HttpErr         == "Http: error sending request"
ReadyTimeoutErr == "Failed: Upload readiness timeout"
CreateJobErr    == "Failed: Job creation failed"
JobTimeoutErr   == "Failed: Job timeout"
JobFailedErr    == "Failed: Job failed"
JobStatusErr    == "Failed: Failed to get job status"
StatusCheckErr  == "Failed: Job status check failed after consecutive errors"
LicensesErr     == "Failed: Failed to get licenses"
CopyrightsErr   == "Failed: Failed to get copyrights"

NoResult == [tag |-> "none"]
\* Option<T>
None == [tag |-> "None"]
Some(v) == [tag |-> "Some", v |-> v]
Ok(n)    == [tag |-> "Ok", n |-> n]
Err(e)   == [tag |-> "Err", e |-> e]

VARIABLES
    scan,               \* the row of table scans
    scan_results,       \* number of rows of table scan_results for the scan
    now,                \* the value of datetime('now')
    lastOp,             \* the Scan:: statement executed last
    flaky_store,        \* Scan:: statements of the job may return Err(sqlx::Error)
    pc,                 \* position of execute_scan_job / execute_scan_internal
    fpc, spc,           \* positions of the two branches of tokio::join!
    fossology_result,   \* result of fossology_scanner.scan
    semgrep_result,     \* result of semgrep_scanner.scan
    fossology_write,    \* Result of the branch's update_fossology_status
    semgrep_write,      \* Result of the branch's update_semgrep_status
    to_store,           \* findings of the merged list still to insert
    cleanup_result,     \* value of the async block of execute_scan_internal
    cleanup_ret,        \* Result of workspace.cleanup()
    internal_result,    \* return value of execute_scan_internal
    workspace_path,     \* the path Workspace::create returned
    workspace_exists,   \* the workspace directory exists on disk
    \* FossologyScanner::scan
    apc,                \* position of FossologyScanner::scan
    calls,              \* the FossologyClient calls scan has made, in order
    scan_ret,           \* return value of FossologyScanner::scan
    \* FossologyClient::wait_for_upload_ready
    rpc,                \* position in the loop
    attempt,            \* attempt
    elapsed_ms,         \* start.elapsed(), in milliseconds
    ready_waits,        \* the delay_secs slept so far, in order
    ready_response,     \* the response to the last status request
    ready_result,       \* return value of wait_for_upload_ready
    \* FossologyClient::wait_for_job_completion
    jpc,                \* position in the loop
    attempts,           \* attempts
    consecutive_errors, \* consecutive_errors
    job_slept,          \* seconds slept so far
    job_status,         \* the result of the last get_job_status call
    job_history,        \* Ok / Err of the last HistoryLen get_job_status calls
    job_result,         \* return value of wait_for_job_completion
    \* merge_scan_results
    mpc,                \* position of the call
    fossology_results,  \* the primary list, merged in place
    semgrep_results,    \* the secondary list
    merge_input,        \* fossology_results as passed in
    \* calculate_risk_score
    findings,           \* the rows of scan_results the scan has, but for the
                        \* permissive ones
    permissive,         \* number of further rows, each a license finding
                        \* with a permissive license of its own
    risk_config,        \* the rows of risk_config, as load_risk_config orders them
    risk_op,            \* the operation executed last on the scan's findings
    assessment,         \* the RiskAssessment returned for the findings as they are
    \* get_license_weight
    lookup_config,      \* config
    lookup_name,        \* license_name
    lookup_ret,         \* the Option<i32> returned
    \* SemgrepScanner::scan
    sgpc,               \* position of SemgrepScanner::scan
    tool,               \* what running the tool gives
    json_output,        \* return value of execute_scan
    semgrep_ret,        \* return value of SemgrepScanner::scan
    \* the two branches of tokio::join! in one task
    polled,             \* the branch that holds the task's thread
    upc,                \* position of upload_from_path
    archive_exists,     \* the temporary archive is on disk
    upload_response,    \* status of the upload response
    upload_ret,         \* return value of upload_from_path
    \* map_to_spdx
    license_text,       \* license_name
    spdx_ret            \* the Option<String> returned

rowvars == <<scan, scan_results, now, lastOp, flaky_store>>
jobvars == <<pc, fpc, spc, fossology_result, semgrep_result, fossology_write,
             semgrep_write, to_store, cleanup_result, cleanup_ret,
             internal_result, workspace_path, workspace_exists>>
fossvars == <<apc, calls, scan_ret, rpc, attempt, elapsed_ms, ready_waits,
              ready_response, ready_result, jpc, attempts, consecutive_errors,
              job_slept, job_status, job_history, job_result>>
mergevars == <<mpc, fossology_results, semgrep_results, merge_input>>
riskvars == <<findings, permissive, risk_config, risk_op, assessment>>
lookupvars == <<lookup_config, lookup_name, lookup_ret>>
toolvars == <<sgpc, tool, json_output, semgrep_ret>>
joinvars == <<polled, upc, archive_exists, upload_response, upload_ret>>
spdxvars == <<license_text, spdx_ret>>
vars == <<scan, scan_results, now, lastOp, flaky_store, pc, fpc, spc, fossology_result,
          semgrep_result, fossology_write, semgrep_write, to_store,
          cleanup_result, cleanup_ret, internal_result, workspace_path,
          workspace_exists, fossvars, mergevars, riskvars, lookupvars, toolvars, joinvars, spdxvars>>

(************************** the scans row **********************************)
\* INSERT INTO scans (...) VALUES (?, ?, ?, 'pending', ?): every other column
\* takes its default
CreatedScan ==
    [ status                 |-> "pending",
      error_message          |-> NoError,
      started_at             |-> NullTime,
      completed_at           |-> NullTime,
      fossology_status       |-> "pending",
      semgrep_status         |-> "pending",
      fossology_started_at   |-> NullTime,
      fossology_completed_at |-> NullTime,
      semgrep_started_at     |-> NullTime,
      semgrep_completed_at   |-> NullTime,
      fossology_error        |-> NoError,
      semgrep_error          |-> NoError ]

\* Scan::update_status: the right-hand sides read the row before the update
UpdateStatus(row, status, error_message, t) ==
    [ row EXCEPT
        !.status = status,
        !.error_message = error_message,
        !.started_at = IF row.status = "pending" /\ status = "in_progress"
                       THEN t ELSE row.started_at,
        !.completed_at = IF status \in {"completed", "failed"}
                         THEN t ELSE row.completed_at ]

\* Scan::update_fossology_status
UpdateFossologyStatus(row, status, error_message, t) ==
    [ row EXCEPT
        !.fossology_status = status,
        !.fossology_error = error_message,
        !.fossology_started_at =
            IF row.fossology_status = "pending" /\ status = "in_progress"
            THEN t ELSE row.fossology_started_at,
        !.fossology_completed_at =
            IF status \in {"completed", "failed"}
            THEN t ELSE row.fossology_completed_at ]

\* Scan::update_semgrep_status
UpdateSemgrepStatus(row, status, error_message, t) ==
    [ row EXCEPT
        !.semgrep_status = status,
        !.semgrep_error = error_message,
        !.semgrep_started_at =
            IF row.semgrep_status = "pending" /\ status = "in_progress"
            THEN t ELSE row.semgrep_started_at,
        !.semgrep_completed_at =
            IF status \in {"completed", "failed"}
            THEN t ELSE row.semgrep_completed_at ]

\* mutant: the first arm joins the two sub-statuses with OR
OverallCaseEitherCompleted(f, s) ==
    IF f = "completed" \/ s = "completed" THEN "completed"
    ELSE IF f = "failed" \/ s = "failed" THEN "failed"
    ELSE IF f = "in_progress" \/ s = "in_progress" THEN "in_progress"
    ELSE "pending"

\* mutant: the in_progress arm is tested before the failed arm
OverallCaseInProgressFirst(f, s) ==
    IF f = "completed" /\ s = "completed" THEN "completed"
    ELSE IF f = "in_progress" \/ s = "in_progress" THEN "in_progress"
    ELSE IF f = "failed" \/ s = "failed" THEN "failed"
    ELSE "pending"

\* the CASE of Scan::update_overall_status
OverallCase(f, s) ==
    IF f = "completed" /\ s = "completed" THEN "completed"
    ELSE IF f = "failed" \/ s = "failed" THEN "failed"
    ELSE IF f = "in_progress" \/ s = "in_progress" THEN "in_progress"
    ELSE "pending"

\* Scan::update_overall_status
UpdateOverallStatus(row, t) ==
    [ row EXCEPT
        !.status = OverallCase(row.fossology_status, row.semgrep_status),
        !.completed_at =
            IF row.fossology_status = "completed" /\ row.semgrep_status = "completed"
            THEN t ELSE row.completed_at ]

\* the clock behind datetime('now') advances
Tick ==
    /\ now < MaxClock
    /\ now' = now + 1
    /\ UNCHANGED <<scan, scan_results, lastOp, flaky_store>>
    /\ UNCHANGED jobvars
    /\ UNCHANGED fossvars
    /\ UNCHANGED mergevars
    /\ UNCHANGED <<riskvars, lookupvars, toolvars, joinvars, spdxvars>>

(****************** Scan:: statements called in any order *******************)
\* Scan::create
InitRow ==
    /\ scan = CreatedScan
    /\ scan_results = 0
    /\ now = 1
    /\ lastOp = "create"
    /\ flaky_store \in BOOLEAN

\* FossologyScanner::scan has not been called
IdleFossology ==
    /\ apc = "idle" /\ calls = <<>> /\ scan_ret = NoResult
    /\ rpc = "idle" /\ attempt = 0 /\ elapsed_ms = 0 /\ ready_waits = <<>>
    /\ ready_response = "none" /\ ready_result = NoResult
    /\ jpc = "idle" /\ attempts = 0 /\ consecutive_errors = 0
    /\ job_slept = 0 /\ job_status = NoResult /\ job_history = <<>>
    /\ job_result = NoResult

\* merge_scan_results has not been called
IdleMerge ==
    /\ mpc = "idle"
    /\ fossology_results = <<>> /\ semgrep_results = <<>> /\ merge_input = <<>>

\* calculate_risk_score has not been called
IdleRisk ==
    /\ findings = {} /\ permissive = 0 /\ risk_config = <<>>
    /\ risk_op = "none" /\ assessment = NoResult

\* get_license_weight has not been called
IdleLookup ==
    /\ lookup_config = <<>> /\ lookup_name = <<>> /\ lookup_ret = NoResult

\* the branches of the join have not been polled
IdleJoin ==
    /\ polled = "none" /\ upc = "idle" /\ archive_exists = FALSE
    /\ upload_response = "none" /\ upload_ret = NoResult

\* map_to_spdx has not been called
IdleSpdx ==
    /\ license_text = <<>> /\ spdx_ret = NoResult

\* SemgrepScanner::scan has not been called
IdleSemgrep ==
    /\ sgpc = "idle" /\ tool = NoResult /\ json_output = NoResult
    /\ semgrep_ret = NoResult

IdleJob ==
    /\ fpc = "idle" /\ spc = "idle"
    /\ fossology_result = NoResult /\ semgrep_result = NoResult
    /\ fossology_write = "none" /\ semgrep_write = "none"
    /\ to_store = 0
    /\ cleanup_result = NoResult
    /\ cleanup_ret = "none"
    /\ internal_result = NoResult
    /\ workspace_path = "none"
    /\ workspace_exists = FALSE

CallUpdateStatus ==
    /\ pc = "calls"
    /\ \E st \in Statuses, e \in {NoError, DbErr} :
          scan' = UpdateStatus(scan, st, e, now)
    /\ lastOp' = "update_status"
    /\ UNCHANGED <<scan_results, now, flaky_store>>
    /\ UNCHANGED jobvars
    /\ UNCHANGED fossvars
    /\ UNCHANGED mergevars
    /\ UNCHANGED <<riskvars, lookupvars, toolvars, joinvars, spdxvars>>

CallUpdateFossologyStatus ==
    /\ pc = "calls"
    /\ \E st \in Statuses, e \in {NoError, FossologyErr} :
          scan' = UpdateFossologyStatus(scan, st, e, now)
    /\ lastOp' = "update_fossology_status"
    /\ UNCHANGED <<scan_results, now, flaky_store>>
    /\ UNCHANGED jobvars
    /\ UNCHANGED fossvars
    /\ UNCHANGED mergevars
    /\ UNCHANGED <<riskvars, lookupvars, toolvars, joinvars, spdxvars>>

CallUpdateSemgrepStatus ==
    /\ pc = "calls"
    /\ \E st \in Statuses, e \in {NoError, SemgrepErr} :
          scan' = UpdateSemgrepStatus(scan, st, e, now)
    /\ lastOp' = "update_semgrep_status"
    /\ UNCHANGED <<scan_results, now, flaky_store>>
    /\ UNCHANGED jobvars
    /\ UNCHANGED fossvars
    /\ UNCHANGED mergevars
    /\ UNCHANGED <<riskvars, lookupvars, toolvars, joinvars, spdxvars>>

CallUpdateOverallStatus ==
    /\ pc = "calls"
    /\ scan' = UpdateOverallStatus(scan, now)
    /\ lastOp' = "update_overall_status"
    /\ UNCHANGED <<scan_results, now, flaky_store>>
    /\ UNCHANGED jobvars
    /\ UNCHANGED fossvars
    /\ UNCHANGED mergevars
    /\ UNCHANGED <<riskvars, lookupvars, toolvars, joinvars, spdxvars>>

(************************* execute_scan_job ********************************)
\* the Results a Scan:: statement of the job can return: Ok(..), and
\* Err(sqlx::Error) when the store is flaky
StatementOutcomes == IF flaky_store THEN BOOLEAN ELSE {TRUE}

\* Scan::find_by_id at the head of execute_scan_job; an Err returns
FindScan ==
    /\ pc = "find_by_id"
    /\ \E ok \in StatementOutcomes : pc' = IF ok THEN "update_status" ELSE "done"
    /\ UNCHANGED rowvars
    /\ UNCHANGED <<fpc, spc, fossology_result, semgrep_result, fossology_write,
                   semgrep_write, to_store, cleanup_result, cleanup_ret,
                   internal_result, workspace_path,
                   workspace_exists>>
    /\ UNCHANGED fossvars
    /\ UNCHANGED mergevars
    /\ UNCHANGED <<riskvars, lookupvars, toolvars, joinvars, spdxvars>>

\* Scan::update_status(.., "in_progress", None); an Err returns
MarkInProgress ==
    /\ pc = "update_status"
    /\ \E ok \in StatementOutcomes :
          IF ok
          THEN /\ scan' = UpdateStatus(scan, "in_progress", NoError, now)
               /\ lastOp' = "update_status"
               /\ pc' = "create_workspace"
          ELSE /\ UNCHANGED <<scan, lastOp>>
               /\ pc' = "done"
    /\ UNCHANGED <<scan_results, now, flaky_store>>
    /\ UNCHANGED <<fpc, spc, fossology_result, semgrep_result, fossology_write,
                   semgrep_write, to_store, cleanup_result, cleanup_ret,
                   internal_result, workspace_path,
                   workspace_exists>>
    /\ UNCHANGED fossvars
    /\ UNCHANGED mergevars
    /\ UNCHANGED <<riskvars, lookupvars, toolvars, joinvars, spdxvars>>

\* the Err arm of execute_scan_job: update_status(.., "failed", Some(e)),
\* its own Result discarded
MarkFailed ==
    /\ pc = "handler"
    /\ \E ok \in StatementOutcomes :
          IF ok
          THEN /\ scan' = UpdateStatus(scan, "failed", internal_result.e, now)
               /\ lastOp' = "update_status"
          ELSE UNCHANGED <<scan, lastOp>>
    /\ pc' = "done"
    /\ UNCHANGED <<scan_results, now, flaky_store>>
    /\ UNCHANGED <<fpc, spc, fossology_result, semgrep_result, fossology_write,
                   semgrep_write, to_store, cleanup_result, cleanup_ret,
                   internal_result, workspace_path,
                   workspace_exists>>
    /\ UNCHANGED fossvars
    /\ UNCHANGED mergevars
    /\ UNCHANGED <<riskvars, lookupvars, toolvars, joinvars, spdxvars>>

(*********************** execute_scan_internal *****************************)
\* Workspace::create; `?` returns its error to execute_scan_job
CreateWorkspace ==
    /\ pc = "create_workspace"
    /\ \E ok \in BOOLEAN :
          IF ok
          THEN /\ workspace_exists' = TRUE
               /\ workspace_path' = "base_dir/scan_id"
               /\ pc' = "clone"
               /\ UNCHANGED internal_result
          ELSE /\ internal_result' = Err(CreateErr)
               /\ pc' = "handler"
               /\ UNCHANGED <<workspace_path, workspace_exists>>
    /\ UNCHANGED rowvars
    /\ UNCHANGED <<fpc, spc, fossology_result, semgrep_result, fossology_write,
                   semgrep_write, to_store, cleanup_result, cleanup_ret>>
    /\ UNCHANGED fossvars
    /\ UNCHANGED mergevars
    /\ UNCHANGED <<riskvars, lookupvars, toolvars, joinvars, spdxvars>>

\* mutant: the `?` of clone_repository leaves execute_scan_internal itself
CloneRepositoryUnscoped ==
    /\ pc = "clone"
    /\ \E ok \in BOOLEAN :
          IF ok
          THEN /\ pc' = "mark_fossology"
               /\ UNCHANGED <<cleanup_result, internal_result>>
          ELSE /\ internal_result' = Err(CloneErr)
               /\ pc' = "handler"
               /\ UNCHANGED cleanup_result
    /\ UNCHANGED rowvars
    /\ UNCHANGED <<fpc, spc, fossology_result, semgrep_result, fossology_write,
                   semgrep_write, to_store, cleanup_ret, workspace_path,
                   workspace_exists>>
    /\ UNCHANGED fossvars
    /\ UNCHANGED mergevars
    /\ UNCHANGED <<riskvars, lookupvars, toolvars, joinvars, spdxvars>>

\* clone_repository(..).await? inside the async block
CloneRepository ==
    /\ pc = "clone"
    /\ \E ok \in BOOLEAN :
          IF ok
          THEN /\ pc' = "mark_fossology"
               /\ UNCHANGED cleanup_result
          ELSE /\ cleanup_result' = Err(CloneErr)
               /\ pc' = "cleanup"
    /\ UNCHANGED rowvars
    /\ UNCHANGED <<fpc, spc, fossology_result, semgrep_result, fossology_write,
                   semgrep_write, to_store, cleanup_ret, internal_result,
                   workspace_path, workspace_exists>>
    /\ UNCHANGED fossvars
    /\ UNCHANGED mergevars
    /\ UNCHANGED <<riskvars, lookupvars, toolvars, joinvars, spdxvars>>

\* let _ = Scan::update_fossology_status(.., "in_progress", None)
MarkFossologyInProgress ==
    /\ pc = "mark_fossology"
    /\ \E ok \in StatementOutcomes :
          IF ok
          THEN /\ scan' = UpdateFossologyStatus(scan, "in_progress", NoError, now)
               /\ lastOp' = "update_fossology_status"
          ELSE UNCHANGED <<scan, lastOp>>
    /\ pc' = "mark_semgrep"
    /\ UNCHANGED <<scan_results, now, flaky_store>>
    /\ UNCHANGED <<fpc, spc, fossology_result, semgrep_result, fossology_write,
                   semgrep_write, to_store, cleanup_result, cleanup_ret,
                   internal_result, workspace_path,
                   workspace_exists>>
    /\ UNCHANGED fossvars
    /\ UNCHANGED mergevars
    /\ UNCHANGED <<riskvars, lookupvars, toolvars, joinvars, spdxvars>>

\* let _ = Scan::update_semgrep_status(.., "in_progress", None)
MarkSemgrepInProgress ==
    /\ pc = "mark_semgrep"
    /\ \E ok \in StatementOutcomes :
          IF ok
          THEN /\ scan' = UpdateSemgrepStatus(scan, "in_progress", NoError, now)
               /\ lastOp' = "update_semgrep_status"
          ELSE UNCHANGED <<scan, lastOp>>
    /\ pc' = "mark_overall"
    /\ UNCHANGED <<scan_results, now, flaky_store>>
    /\ UNCHANGED <<fpc, spc, fossology_result, semgrep_result, fossology_write,
                   semgrep_write, to_store, cleanup_result, cleanup_ret,
                   internal_result, workspace_path,
                   workspace_exists>>
    /\ UNCHANGED fossvars
    /\ UNCHANGED mergevars
    /\ UNCHANGED <<riskvars, lookupvars, toolvars, joinvars, spdxvars>>

\* let _ = Scan::update_overall_status(..), then tokio::join! starts both
\* branches
MarkOverall ==
    /\ pc = "mark_overall"
    /\ \E ok \in StatementOutcomes :
          IF ok
          THEN /\ scan' = UpdateOverallStatus(scan, now)
               /\ lastOp' = "update_overall_status"
          ELSE UNCHANGED <<scan, lastOp>>
    /\ pc' = "join"
    /\ fpc' = "scan"
    /\ spc' = "scan"
    /\ UNCHANGED <<scan_results, now, flaky_store>>
    /\ UNCHANGED <<fossology_result, semgrep_result, fossology_write,
                   semgrep_write, to_store, cleanup_result, cleanup_ret,
                   internal_result, workspace_path,
                   workspace_exists>>
    /\ UNCHANGED fossvars
    /\ UNCHANGED mergevars
    /\ UNCHANGED <<riskvars, lookupvars, toolvars, joinvars, spdxvars>>

\* first branch: fossology_scanner.scan(..).await
FossologyScan ==
    /\ pc = "join" /\ fpc = "scan"
    /\ \E r \in {Ok(n) : n \in 0..MaxRows} \cup {Err(FossologyErr)} :
          fossology_result' = r
    /\ fpc' = "write"
    /\ UNCHANGED rowvars
    /\ UNCHANGED <<pc, spc, semgrep_result, fossology_write, semgrep_write,
                   to_store, cleanup_result, cleanup_ret, internal_result,
                   workspace_path, workspace_exists>>
    /\ UNCHANGED fossvars
    /\ UNCHANGED mergevars
    /\ UNCHANGED <<riskvars, lookupvars, toolvars, joinvars, spdxvars>>

\* first branch: match &result { Ok => "completed", Err(e) => "failed", e }
FossologyWrite ==
    /\ pc = "join" /\ fpc = "write"
    /\ polled = "none"
    /\ \E ok \in StatementOutcomes :
          /\ IF ok
             THEN /\ scan' = IF fossology_result.tag = "Ok"
                             THEN UpdateFossologyStatus(scan, "completed", NoError, now)
                             ELSE UpdateFossologyStatus(scan, "failed",
                                                        fossology_result.e, now)
                  /\ lastOp' = "update_fossology_status"
             ELSE UNCHANGED <<scan, lastOp>>
          /\ fossology_write' = IF ok THEN "Ok" ELSE "Err"
    /\ fpc' = "overall"
    /\ UNCHANGED <<scan_results, now, flaky_store>>
    /\ UNCHANGED <<pc, spc, fossology_result, semgrep_result, semgrep_write,
                   to_store, cleanup_result, cleanup_ret, internal_result,
                   workspace_path, workspace_exists>>
    /\ UNCHANGED fossvars
    /\ UNCHANGED mergevars
    /\ UNCHANGED <<riskvars, lookupvars, toolvars, joinvars, spdxvars>>

\* first branch: let _ = Scan::update_overall_status(..); result
FossologyOverall ==
    /\ pc = "join" /\ fpc = "overall"
    /\ polled = "none"
    /\ \E ok \in StatementOutcomes :
          IF ok
          THEN /\ scan' = UpdateOverallStatus(scan, now)
               /\ lastOp' = "update_overall_status"
          ELSE UNCHANGED <<scan, lastOp>>
    /\ fpc' = "joined"
    /\ UNCHANGED <<scan_results, now, flaky_store>>
    /\ UNCHANGED <<pc, spc, fossology_result, semgrep_result, fossology_write,
                   semgrep_write, to_store, cleanup_result, cleanup_ret,
                   internal_result, workspace_path,
                   workspace_exists>>
    /\ UNCHANGED fossvars
    /\ UNCHANGED mergevars
    /\ UNCHANGED <<riskvars, lookupvars, toolvars, joinvars, spdxvars>>

\* second branch: semgrep_scanner.scan(..).await
SemgrepScan ==
    /\ pc = "join" /\ spc = "scan"
    /\ \E r \in {Ok(n) : n \in 0..MaxRows} \cup {Err(SemgrepErr)} :
          semgrep_result' = r
    /\ spc' = "write"
    /\ UNCHANGED rowvars
    /\ UNCHANGED <<pc, fpc, fossology_result, fossology_write, semgrep_write,
                   to_store, cleanup_result, cleanup_ret, internal_result,
                   workspace_path, workspace_exists>>
    /\ UNCHANGED fossvars
    /\ UNCHANGED mergevars
    /\ UNCHANGED <<riskvars, lookupvars, toolvars, joinvars, spdxvars>>

\* second branch: match &result { Ok => "completed", Err(e) => "failed", e }
SemgrepWrite ==
    /\ pc = "join" /\ spc = "write"
    /\ polled = "none"
    /\ \E ok \in StatementOutcomes :
          /\ IF ok
             THEN /\ scan' = IF semgrep_result.tag = "Ok"
                             THEN UpdateSemgrepStatus(scan, "completed", NoError, now)
                             ELSE UpdateSemgrepStatus(scan, "failed",
                                                      semgrep_result.e, now)
                  /\ lastOp' = "update_semgrep_status"
             ELSE UNCHANGED <<scan, lastOp>>
          /\ semgrep_write' = IF ok THEN "Ok" ELSE "Err"
    /\ spc' = "overall"
    /\ UNCHANGED <<scan_results, now, flaky_store>>
    /\ UNCHANGED <<pc, fpc, fossology_result, semgrep_result, fossology_write,
                   to_store, cleanup_result, cleanup_ret, internal_result,
                   workspace_path, workspace_exists>>
    /\ UNCHANGED fossvars
    /\ UNCHANGED mergevars
    /\ UNCHANGED <<riskvars, lookupvars, toolvars, joinvars, spdxvars>>

\* second branch: let _ = Scan::update_overall_status(..); result
SemgrepOverall ==
    /\ pc = "join" /\ spc = "overall"
    /\ polled = "none"
    /\ \E ok \in StatementOutcomes :
          IF ok
          THEN /\ scan' = UpdateOverallStatus(scan, now)
               /\ lastOp' = "update_overall_status"
          ELSE UNCHANGED <<scan, lastOp>>
    /\ spc' = "joined"
    /\ UNCHANGED <<scan_results, now, flaky_store>>
    /\ UNCHANGED <<pc, fpc, fossology_result, semgrep_result, fossology_write,
                   semgrep_write, to_store, cleanup_result, cleanup_ret,
                   internal_result, workspace_path,
                   workspace_exists>>
    /\ UNCHANGED fossvars
    /\ UNCHANGED mergevars
    /\ UNCHANGED <<riskvars, lookupvars, toolvars, joinvars, spdxvars>>

\* merge_scan_results, by the number of findings: every finding of the
\* Fossology list is kept and the ECC findings of the Semgrep list are added
MergedCount(a, b) == a + b

\* mutant: try_join!, the first Err ends the join and drops the other branch
JoinResultsFirstError ==
    /\ pc = "join"
    /\ \/ fpc = "joined" /\ spc = "joined"
       \/ fpc = "joined" /\ fossology_result.tag = "Err"
       \/ spc = "joined" /\ semgrep_result.tag = "Err"
    /\ IF fpc = "joined" /\ fossology_result.tag = "Err"
       THEN /\ cleanup_result' = fossology_result
            /\ pc' = "cleanup"
            /\ UNCHANGED to_store
       ELSE IF spc = "joined" /\ semgrep_result.tag = "Err"
       THEN /\ cleanup_result' = semgrep_result
            /\ pc' = "cleanup"
            /\ UNCHANGED to_store
       ELSE /\ to_store' = fossology_result.n + semgrep_result.n
            /\ pc' = "store"
            /\ UNCHANGED cleanup_result
    /\ UNCHANGED rowvars
    /\ UNCHANGED <<fpc, spc, fossology_result, semgrep_result, fossology_write,
                   semgrep_write, cleanup_ret, internal_result, workspace_path,
                   workspace_exists>>
    /\ UNCHANGED fossvars
    /\ UNCHANGED mergevars
    /\ UNCHANGED <<riskvars, lookupvars, toolvars, joinvars, spdxvars>>

\* both branches of tokio::join! have returned: fossology_result?,
\* semgrep_result?, then merge_scan_results
JoinResults ==
    /\ pc = "join" /\ fpc = "joined" /\ spc = "joined"
    /\ IF fossology_result.tag = "Err"
       THEN /\ cleanup_result' = fossology_result
            /\ pc' = "cleanup"
            /\ UNCHANGED to_store
       ELSE IF semgrep_result.tag = "Err"
       THEN /\ cleanup_result' = semgrep_result
            /\ pc' = "cleanup"
            /\ UNCHANGED to_store
       ELSE /\ to_store' = MergedCount(fossology_result.n, semgrep_result.n)
            /\ pc' = "store"
            /\ UNCHANGED cleanup_result
    /\ UNCHANGED rowvars
    /\ UNCHANGED <<fpc, spc, fossology_result, semgrep_result, fossology_write,
                   semgrep_write, cleanup_ret, internal_result, workspace_path,
                   workspace_exists>>
    /\ UNCHANGED fossvars
    /\ UNCHANGED mergevars
    /\ UNCHANGED <<riskvars, lookupvars, toolvars, joinvars, spdxvars>>

\* store_scan_results: one DbScanResult::create_*(..).await? of the loops
StoreInsert ==
    /\ pc = "store" /\ to_store > 0
    /\ \E ok \in BOOLEAN :
          IF ok
          THEN /\ scan_results' = scan_results + 1
               /\ to_store' = to_store - 1
               /\ UNCHANGED <<pc, cleanup_result>>
          ELSE /\ cleanup_result' = Err(StoreErr)
               /\ pc' = "cleanup"
               /\ UNCHANGED <<scan_results, to_store>>
    /\ UNCHANGED <<scan, now, lastOp, flaky_store>>
    /\ UNCHANGED <<fpc, spc, fossology_result, semgrep_result, fossology_write,
                   semgrep_write, cleanup_ret, internal_result, workspace_path,
                   workspace_exists>>
    /\ UNCHANGED fossvars
    /\ UNCHANGED mergevars
    /\ UNCHANGED <<riskvars, lookupvars, toolvars, joinvars, spdxvars>>

\* store_scan_results: the loops are exhausted, Ok(())
StoreDone ==
    /\ pc = "store" /\ to_store = 0
    /\ pc' = "final_overall"
    /\ UNCHANGED rowvars
    /\ UNCHANGED <<fpc, spc, fossology_result, semgrep_result, fossology_write,
                   semgrep_write, to_store, cleanup_result, cleanup_ret,
                   internal_result, workspace_path,
                   workspace_exists>>
    /\ UNCHANGED fossvars
    /\ UNCHANGED mergevars
    /\ UNCHANGED <<riskvars, lookupvars, toolvars, joinvars, spdxvars>>

\* Scan::update_overall_status(..).await? closing the async block
FinalOverall ==
    /\ pc = "final_overall"
    /\ \E ok \in StatementOutcomes :
          IF ok
          THEN /\ scan' = UpdateOverallStatus(scan, now)
               /\ lastOp' = "update_overall_status"
               /\ cleanup_result' = Ok(0)
          ELSE /\ cleanup_result' = Err(DbErr)
               /\ UNCHANGED <<scan, lastOp>>
    /\ pc' = "cleanup"
    /\ UNCHANGED <<scan_results, now, flaky_store>>
    /\ UNCHANGED <<fpc, spc, fossology_result, semgrep_result, fossology_write,
                   semgrep_write, to_store, cleanup_ret, internal_result,
                   workspace_path, workspace_exists>>
    /\ UNCHANGED fossvars
    /\ UNCHANGED mergevars
    /\ UNCHANGED <<riskvars, lookupvars, toolvars, joinvars, spdxvars>>

\* workspace.cleanup().await?; cleanup_result -- Workspace::cleanup removes
\* the directory unless remove_dir_all fails, and its error is returned in
\* place of cleanup_result
CleanupWorkspace ==
    /\ pc = "cleanup"
    /\ \E ok \in BOOLEAN :
          IF ok
          THEN /\ workspace_exists' = FALSE
               /\ cleanup_ret' = "Ok"
               /\ internal_result' = cleanup_result
               /\ pc' = IF cleanup_result.tag = "Err" THEN "handler" ELSE "done"
          ELSE /\ UNCHANGED workspace_exists
               /\ cleanup_ret' = "Err"
               /\ internal_result' = Err(CleanupErr)
               /\ pc' = "handler"
    /\ UNCHANGED rowvars
    /\ UNCHANGED <<fpc, spc, fossology_result, semgrep_result, fossology_write,
                   semgrep_write, to_store, cleanup_result, workspace_path>>
    /\ UNCHANGED fossvars
    /\ UNCHANGED mergevars
    /\ UNCHANGED <<riskvars, lookupvars, toolvars, joinvars, spdxvars>>

(************************ FossologyScanner::scan ****************************)
\* let max_total_wait = Duration::from_secs(300)
MaxTotalWaitSecs == 300
\* let max_attempts = 120
MaxAttempts == 120
\* let max_consecutive_errors = 3
MaxConsecutiveErrors == 3
\* tokio::time::sleep(Duration::from_secs(5)) of the job-completion poll
PollIntervalSecs == 5

\* the order in which scan calls the client
AdapterOrder == <<"upload_from_path", "wait_for_upload_ready", "create_job",
                  "wait_for_job_completion", "get_licenses", "get_copyrights">>

\* nothing of wait_for_upload_ready is live
ReadyLocalsDropped ==
    /\ rpc' = "idle" /\ attempt' = 0 /\ elapsed_ms' = 0 /\ ready_waits' = <<>>
    /\ ready_response' = "none"

\* nothing of wait_for_job_completion is live
JobLocalsDropped ==
    /\ jpc' = "idle" /\ attempts' = 0 /\ consecutive_errors' = 0
    /\ job_slept' = 0 /\ job_history' = <<>>

readyvars == <<rpc, attempt, elapsed_ms, ready_waits, ready_response, ready_result>>
jobpollvars == <<jpc, attempts, consecutive_errors, job_slept, job_status,
                 job_history, job_result>>
othervars == <<rowvars, jobvars, mergevars, riskvars, lookupvars, toolvars, joinvars, spdxvars>>

\* self.client.upload_from_path(repo_path, self.folder_id, ..).await?
UploadFromPath ==
    /\ apc = "upload_from_path"
    /\ calls' = Append(calls, "upload_from_path")
    /\ \E r \in {Ok(0), Err(UploadErr), Err(HttpErr)} :
          IF r.tag = "Ok"
          THEN apc' = "wait_for_upload_ready" /\ UNCHANGED scan_ret
          ELSE apc' = "returned" /\ scan_ret' = r
    /\ UNCHANGED <<readyvars, jobpollvars, othervars>>

(* wait_for_upload_ready *)
\* let delay_secs = match attempt { 1 => 1, 2 => 2, 3 => 4, 4 => 8, 5 => 15, _ => 30 }
DelaySecsFromZero(k) ==
    CASE k = 0 -> 1 [] k = 1 -> 2 [] k = 2 -> 4 [] k = 3 -> 8 [] k = 4 -> 15
      [] OTHER -> 30

DelaySecs(k) ==
    CASE k = 1 -> 1 [] k = 2 -> 2 [] k = 3 -> 4 [] k = 4 -> 8 [] k = 5 -> 15
      [] OTHER -> 30

\* what a status request of the readiness poll can come back with: 200 with
\* a hash, 200 without a hash, 200 with a body that is not UploadDetails,
\* 503, another status, or no response at all
ReadyResponses == {"ready", "no_hash", "bad_json", "503", "404", "transport_error"}

\* the time a status request takes
RequestMs == {MinRequestMs, MaxRequestMs}

\* the call: start = Instant::now(), attempt = 0
CallWaitForUploadReady ==
    /\ apc = "wait_for_upload_ready" /\ rpc = "idle"
    /\ calls' = Append(calls, "wait_for_upload_ready")
    /\ rpc' = "top" /\ attempt' = 0 /\ elapsed_ms' = 0 /\ ready_waits' = <<>>
    /\ ready_response' = "none" /\ ready_result' = NoResult
    /\ UNCHANGED <<apc, scan_ret, jobpollvars, othervars>>

\* loop { attempt += 1; if start.elapsed() > max_total_wait { return Err(..) }
ReadyLoopTop ==
    /\ apc = "wait_for_upload_ready" /\ rpc = "top"
    /\ attempt' = attempt + 1
    /\ IF elapsed_ms > MaxTotalWaitSecs * 1000
       THEN rpc' = "returned" /\ ready_result' = Err(ReadyTimeoutErr)
       ELSE rpc' = "request" /\ UNCHANGED ready_result
    /\ UNCHANGED <<apc, calls, scan_ret, elapsed_ms, ready_waits, ready_response,
                   jobpollvars, othervars>>

\* self.client.get(&url)...send().await? and the match on the response
ReadyRequest ==
    /\ apc = "wait_for_upload_ready" /\ rpc = "request"
    /\ \E ms \in RequestMs, r \in ReadyResponses :
          /\ elapsed_ms' = elapsed_ms + ms
          /\ ready_response' = r
          /\ CASE r = "transport_error" ->
                    rpc' = "returned" /\ ready_result' = Err(HttpErr)
               [] r = "ready" ->
                    rpc' = "returned" /\ ready_result' = Ok(0)
               [] OTHER ->
                    rpc' = "sleep" /\ UNCHANGED ready_result
    /\ UNCHANGED <<apc, calls, scan_ret, attempt, ready_waits, jobpollvars, othervars>>

\* tokio::time::sleep(Duration::from_secs(delay_secs)).await
ReadySleep ==
    /\ apc = "wait_for_upload_ready" /\ rpc = "sleep"
    /\ elapsed_ms' = elapsed_ms + DelaySecs(attempt) * 1000
    /\ ready_waits' = Append(ready_waits, DelaySecs(attempt))
    /\ rpc' = "top"
    /\ UNCHANGED <<apc, calls, scan_ret, attempt, ready_response, ready_result,
                   jobpollvars, othervars>>

\* self.client.wait_for_upload_ready(upload_id).await?, with the result ignored
WaitForUploadReadyReturnsIgnored ==
    /\ apc = "wait_for_upload_ready" /\ rpc = "returned"
    /\ ReadyLocalsDropped
    /\ apc' = "create_job"
    /\ UNCHANGED <<calls, scan_ret, ready_result, jobpollvars, othervars>>

\* self.client.wait_for_upload_ready(upload_id).await?
WaitForUploadReadyReturns ==
    /\ apc = "wait_for_upload_ready" /\ rpc = "returned"
    /\ ReadyLocalsDropped
    /\ IF ready_result.tag = "Ok"
       THEN apc' = "create_job" /\ UNCHANGED scan_ret
       ELSE apc' = "returned" /\ scan_ret' = ready_result
    /\ UNCHANGED <<calls, ready_result, jobpollvars, othervars>>

\* self.client.create_job(upload_id, self.folder_id).await?
CreateJob ==
    /\ apc = "create_job"
    /\ calls' = Append(calls, "create_job")
    /\ \E r \in {Ok(0), Err(CreateJobErr), Err(HttpErr)} :
          IF r.tag = "Ok"
          THEN apc' = "wait_for_job_completion" /\ UNCHANGED scan_ret
          ELSE apc' = "returned" /\ scan_ret' = r
    /\ UNCHANGED <<readyvars, jobpollvars, othervars>>

(* wait_for_job_completion *)
OkStatus(status) == [tag |-> "Ok", status |-> status]

\* what get_job_status can return: a JobStatus with the state the service
\* reports, or an error (no response, a body that is not a JobStatus, a
\* status that is not a success)
GetJobStatusResults ==
    {OkStatus(st) : st \in {"Completed", "Failed", "Processing", "Queued"}}
      \cup {Err(HttpErr), Err(JobStatusErr)}

\* match status.status.as_str() { "Completed" => .., "Failed" => .., _ => .. }
JobStatusArmFailedContinues(status) ==
    CASE status = "Completed" -> "return_ok"
      [] OTHER -> "sleep"

JobStatusArm(status) ==
    CASE status = "Completed" -> "return_ok"
      [] status = "Failed" -> "return_failed"
      [] OTHER -> "sleep"

\* consecutive_errors = 0 in the Ok arm, consecutive_errors += 1 in the Err arm
ConsecutiveAfterNoReset(r, n) == IF r.tag = "Ok" THEN n ELSE n + 1

ConsecutiveAfter(r, n) == IF r.tag = "Ok" THEN 0 ELSE n + 1

\* if consecutive_errors >= max_consecutive_errors
ErrorBudgetSpentAfter(n) == n > MaxConsecutiveErrors

ErrorBudgetSpent(n) == n >= MaxConsecutiveErrors

\* the last HistoryLen entries of h
LastOf(h) == IF Len(h) > HistoryLen THEN SubSeq(h, Len(h) - HistoryLen + 1, Len(h)) ELSE h

\* the call: attempts = 0, consecutive_errors = 0
CallWaitForJobCompletion ==
    /\ apc = "wait_for_job_completion" /\ jpc = "idle"
    /\ calls' = Append(calls, "wait_for_job_completion")
    /\ jpc' = "top" /\ attempts' = 0 /\ consecutive_errors' = 0
    /\ job_slept' = 0 /\ job_status' = NoResult /\ job_history' = <<>>
    /\ job_result' = NoResult
    /\ UNCHANGED <<apc, scan_ret, readyvars, othervars>>

\* loop { attempts += 1; if attempts >= max_attempts { return Err(..) }
JobLoopTopInclusive ==
    /\ apc = "wait_for_job_completion" /\ jpc = "top"
    /\ attempts' = attempts + 1
    /\ IF attempts' >= MaxAttempts
       THEN jpc' = "returned" /\ job_result' = Err(JobTimeoutErr)
       ELSE jpc' = "request" /\ UNCHANGED job_result
    /\ UNCHANGED <<apc, calls, scan_ret, consecutive_errors, job_slept, job_status,
                   job_history, readyvars, othervars>>

\* loop { attempts += 1; if attempts > max_attempts { return Err(..) }
JobLoopTop ==
    /\ apc = "wait_for_job_completion" /\ jpc = "top"
    /\ attempts' = attempts + 1
    /\ IF attempts' > MaxAttempts
       THEN jpc' = "returned" /\ job_result' = Err(JobTimeoutErr)
       ELSE jpc' = "request" /\ UNCHANGED job_result
    /\ UNCHANGED <<apc, calls, scan_ret, consecutive_errors, job_slept, job_status,
                   job_history, readyvars, othervars>>

\* match self.get_job_status(job_id).await { Ok(status) => .., Err(e) => .. }
JobRequest ==
    /\ apc = "wait_for_job_completion" /\ jpc = "request"
    /\ \E r \in GetJobStatusResults :
          /\ job_status' = r
          /\ job_history' = LastOf(Append(job_history, r.tag))
          /\ consecutive_errors' = ConsecutiveAfter(r, consecutive_errors)
          /\ IF r.tag = "Ok"
             THEN CASE JobStatusArm(r.status) = "return_ok" ->
                         jpc' = "returned" /\ job_result' = Ok(0)
                    [] JobStatusArm(r.status) = "return_failed" ->
                         jpc' = "returned" /\ job_result' = Err(JobFailedErr)
                    [] OTHER ->
                         jpc' = "sleep" /\ UNCHANGED job_result
             ELSE IF ErrorBudgetSpent(consecutive_errors')
                  THEN jpc' = "returned" /\ job_result' = Err(StatusCheckErr)
                  ELSE jpc' = "sleep" /\ UNCHANGED job_result
    /\ UNCHANGED <<apc, calls, scan_ret, attempts, job_slept, readyvars, othervars>>

\* tokio::time::sleep(Duration::from_secs(5)).await
JobSleep ==
    /\ apc = "wait_for_job_completion" /\ jpc = "sleep"
    /\ job_slept' = job_slept + PollIntervalSecs
    /\ jpc' = "top"
    /\ UNCHANGED <<apc, calls, scan_ret, attempts, consecutive_errors, job_status,
                   job_history, job_result, readyvars, othervars>>

\* self.client.wait_for_job_completion(job_id).await?
WaitForJobCompletionReturns ==
    /\ apc = "wait_for_job_completion" /\ jpc = "returned"
    /\ JobLocalsDropped
    /\ IF job_result.tag = "Ok"
       THEN apc' = "get_licenses" /\ UNCHANGED scan_ret
       ELSE apc' = "returned" /\ scan_ret' = job_result
    /\ UNCHANGED <<calls, job_status, job_result, readyvars, othervars>>

\* self.client.get_licenses(upload_id).await? and parse_license_results
GetLicenses ==
    /\ apc = "get_licenses"
    /\ calls' = Append(calls, "get_licenses")
    /\ \E r \in {Ok(0), Err(LicensesErr), Err(HttpErr)} :
          IF r.tag = "Ok"
          THEN apc' = "get_copyrights" /\ UNCHANGED scan_ret
          ELSE apc' = "returned" /\ scan_ret' = r
    /\ UNCHANGED <<readyvars, jobpollvars, othervars>>

\* self.client.get_copyrights(upload_id).await?, merge_copyright_results
\* and Ok(scan_results)
GetCopyrights ==
    /\ apc = "get_copyrights"
    /\ calls' = Append(calls, "get_copyrights")
    /\ \E r \in {Ok(n) : n \in 0..MaxRows} \cup {Err(CopyrightsErr), Err(HttpErr)} :
          apc' = "returned" /\ scan_ret' = r
    /\ UNCHANGED <<readyvars, jobpollvars, othervars>>

(************************** merge_scan_results ******************************)
\* crate::scanner::ScanResult
ScanResult(file_path, licenses, copyrights, ecc_findings) ==
    [file_path |-> file_path, licenses |-> licenses, copyrights |-> copyrights,
     ecc_findings |-> ecc_findings]

\* the records the lists are made of: two paths; no license and copyright
\* findings or one of each; no control-flag finding or one
ScanResults ==
    {ScanResult(p, l[1], l[2], e) :
        p \in {"a.rs", "b.rs"},
        l \in {<< <<>>, <<>> >>, << <<"MIT">>, <<"Copyright 2024 Acme">> >>},
        e \in {<<>>, <<"AES">>}}

\* Vec<ScanResult> of at most MaxMergeLen records
ScanResultLists == UNION {[1..n -> ScanResults] : n \in 0..MaxMergeLen}

\* file_index_map: for (idx, result) in fossology_results.iter().enumerate()
\* { file_index_map.insert(result.file_path.clone(), idx) }; a later insert
\* replaces an earlier one
FileIndexMap(results) ==
    [p \in {results[i].file_path : i \in DOMAIN results} |->
        CHOOSE i \in DOMAIN results :
            /\ results[i].file_path = p
            /\ \A k \in DOMAIN results : results[k].file_path = p => k <= i]

\* fossology_results[idx].ecc_findings.extend(..), dropping findings that
\* the record already has
ExtendEccDedup(result, ecc_findings) ==
    [result EXCEPT !.ecc_findings =
        @ \o SelectSeq(ecc_findings,
                       LAMBDA f : \A k \in DOMAIN result.ecc_findings :
                                     result.ecc_findings[k] # f)]

\* fossology_results[idx].ecc_findings.extend(semgrep_result.ecc_findings)
ExtendEcc(result, ecc_findings) ==
    [result EXCEPT !.ecc_findings = @ \o ecc_findings]

\* for semgrep_result in semgrep_results { .. }, from the j-th record on:
\* the pair of fossology_results and results_to_add after the loop
RECURSIVE MergeLoop(_, _, _, _, _)
MergeLoop(results, file_index_map, semgrep, j, results_to_add) ==
    IF j > Len(semgrep)
    THEN <<results, results_to_add>>
    ELSE IF semgrep[j].file_path \in DOMAIN file_index_map
         THEN LET idx == file_index_map[semgrep[j].file_path]
              IN  MergeLoop([results EXCEPT
                                ![idx] = ExtendEcc(@, semgrep[j].ecc_findings)],
                            file_index_map, semgrep, j + 1, results_to_add)
         ELSE MergeLoop(results, file_index_map, semgrep, j + 1,
                        Append(results_to_add, semgrep[j]))

\* merge_scan_results that adds every record of semgrep_results
merge_scan_results_add_all(results, semgrep) ==
    LET looped == MergeLoop(results, FileIndexMap(results), semgrep, 1, <<>>)
    IN  looped[1] \o semgrep

\* merge_scan_results: fossology_results after the call
merge_scan_results(results, semgrep) ==
    LET looped == MergeLoop(results, FileIndexMap(results), semgrep, 1, <<>>)
    IN  looped[1] \o looped[2]

\* merge_scan_results(&mut fossology_results, semgrep_results)
MergeScanResults ==
    /\ mpc = "call"
    /\ fossology_results' = merge_scan_results(fossology_results, semgrep_results)
    /\ mpc' = "done"
    /\ UNCHANGED <<semgrep_results, merge_input, rowvars, jobvars, fossvars,
                   riskvars, lookupvars, toolvars, joinvars, spdxvars>>

(************************** get_license_weight ******************************)
\* a String is the sequence of its characters
\* s.starts_with(p)
StartsWith(s, p) == Len(p) <= Len(s) /\ SubSeq(s, 1, Len(p)) = p

\* s.ends_with(p)
EndsWith(s, p) == Len(p) <= Len(s) /\ SubSeq(s, Len(s) - Len(p) + 1, Len(s)) = p

\* s.contains(p)
Contains(s, p) == \E i \in 0..(Len(s) - Len(p)) : SubSeq(s, i + 1, i + Len(p)) = p

\* pattern.split('%').collect(): the pieces between the '%' characters
RECURSIVE SplitPercent(_)
SplitPercent(pattern) ==
    IF \A i \in DOMAIN pattern : pattern[i] # "%"
    THEN <<pattern>>
    ELSE LET k == CHOOSE i \in DOMAIN pattern :
                      pattern[i] = "%" /\ \A j \in 1..(i - 1) : pattern[j] # "%"
         IN  <<SubSeq(pattern, 1, k - 1)>>
                \o SplitPercent(SubSeq(pattern, k + 1, Len(pattern)))

\* the if / else if chain of get_license_weight for one (pattern, weight)
PatternMatches(pattern, license_name) ==
    IF EndsWith(pattern, <<"%">>)
    THEN StartsWith(license_name, SubSeq(pattern, 1, Len(pattern) - 1))
    ELSE IF StartsWith(pattern, <<"%">>)
    THEN EndsWith(license_name, SubSeq(pattern, 2, Len(pattern)))
    ELSE IF Contains(pattern, <<"%">>)
    THEN LET parts == SplitPercent(pattern)
         IN  /\ Len(parts) = 2
             /\ StartsWith(license_name, parts[1])
             /\ EndsWith(license_name, parts[2])
    ELSE pattern = license_name

\* get_license_weight that goes on after a match and returns the last one
get_license_weight_last(config, license_name) ==
    LET hits == {i \in DOMAIN config : PatternMatches(config[i][1], license_name)}
    IN  IF hits = {}
        THEN None
        ELSE Some(config[CHOOSE i \in hits : \A j \in hits : j <= i][2])

\* for (pattern, weight) in config { .. return Some(*weight) } None
get_license_weight(config, license_name) ==
    LET hits == {i \in DOMAIN config : PatternMatches(config[i][1], license_name)}
    IN  IF hits = {}
        THEN None
        ELSE Some(config[CHOOSE i \in hits : \A j \in hits : i <= j][2])

\* strings of at most MaxPatternLen characters
StringsOver(chars) == UNION {[1..n -> chars] : n \in 0..MaxPatternLen}

\* the rows of risk_config with these patterns, ORDER BY risk_weight DESC
ConfigOf(patterns) ==
    [i \in DOMAIN patterns |-> <<patterns[i], 10 * (Len(patterns) - i + 1)>>]

\* the configurations get_license_weight is called with: no rule, one rule,
\* two rules
LookupConfigs ==
    LET patterns == StringsOver({"a", "b", "%"})
    IN  {<<>>} \cup {ConfigOf(<<p>>) : p \in patterns}
               \cup {ConfigOf(<<p, q>>) : p \in patterns, q \in patterns}

\* get_license_weight(&risk_config, license_name)
GetLicenseWeight ==
    /\ pc = "lookup" /\ lookup_ret = NoResult
    /\ lookup_ret' = get_license_weight(lookup_config, lookup_name)
    /\ UNCHANGED <<lookup_config, lookup_name, rowvars, jobvars, fossvars,
                   mergevars, riskvars, toolvars, joinvars, spdxvars>>

(************************* calculate_risk_score *****************************)
\* a row of scan_results with result_type 'license'
LicenseRow(file_path, license_name, license_spdx_id, confidence) ==
    [result_type |-> "license", file_path |-> file_path,
     license_name |-> Some(license_name), license_spdx_id |-> license_spdx_id,
     confidence |-> confidence, risk_severity |-> None]

\* a row of scan_results with result_type 'ecc'
EccRow(file_path, risk_severity) ==
    [result_type |-> "ecc", file_path |-> file_path,
     license_name |-> None, license_spdx_id |-> None,
     confidence |-> None, risk_severity |-> risk_severity]

\* a row of scan_results with result_type 'copyright'
CopyrightRow(file_path) ==
    [result_type |-> "copyright", file_path |-> file_path,
     license_name |-> None, license_spdx_id |-> None,
     confidence |-> None, risk_severity |-> None]

\* license names, as strings of the pieces that matter to the matching
GplName == <<"GPL", "-3.0">>
UnknownName == <<"Unknown">>

\* the license findings a file can have: one of the given license names,
\* with the identifier absent, empty or present at confidence 0.70, or with
\* the identifier present and the confidence (in hundredths) absent, 0.30 or
\* 0.50
LicenseRowsOf(file_path, names) ==
    {LicenseRow(file_path, n, a[1], a[2]) :
        n \in names,
        a \in ({None, Some(""), Some("id")} \X {Some(70)})
                \cup ({Some("id")} \X {None, Some(30), Some(50)})}

\* the rows a scan can have: the license findings of a.rs, two more of
\* b.rs, control-flag findings in a.rs with the severity absent or one of
\* four, two more in b.rs, and a copyright finding
FindingRows ==
    LicenseRowsOf("a.rs", {GplName, UnknownName})
      \cup {LicenseRow("b.rs", GplName, None, Some(70)),
            LicenseRow("b.rs", UnknownName, Some("id"), Some(30))}
      \cup {EccRow("a.rs", sev) :
              sev \in {None, Some("critical"), Some("high"), Some("medium"),
                       Some("low")}}
      \cup {EccRow("b.rs", Some("critical")), EccRow("b.rs", Some("low"))}
      \cup {CopyrightRow("a.rs")}

\* names of permissive licenses
PermissiveNames ==
    <<"MIT", "Apache-2.0", "BSD-2-Clause", "BSD-3-Clause", "ISC", "Zlib",
      "Unlicense", "CC0-1.0", "BSL-1.0", "0BSD", "PostgreSQL", "NCSA", "X11",
      "Python-2.0", "curl", "libpng">>

\* n license findings, each with a permissive license of its own, an
\* identifier and a high confidence
PermissiveRows(n) ==
    {LicenseRow("NOTICE", <<PermissiveNames[i]>>, Some("id"), Some(90)) : i \in 1..n}

\* the numbers of permissive license findings a scan starts with
PermissiveCounts == {0, 4, 9, 14, 15}

\* the rows of risk_config, ORDER BY risk_weight DESC: a weight for the GPL
\* family and a smaller one for unknown licenses, or a large weight for the
\* GPL family and a negative one for every other license
RiskConfigs ==
    {<< <<<<"GPL", "%">>, 20>>, <<UnknownName, 10>> >>,
     << <<<<"GPL", "%">>, 90>>, <<<<"%">>, -5>> >>}

\* the sum of f over its domain
RECURSIVE SumOver(_)
SumOver(f) ==
    IF DOMAIN f = {}
    THEN 0
    ELSE LET x == CHOOSE x \in DOMAIN f : TRUE
         IN  f[x] + SumOver([y \in DOMAIN f \ {x} |-> f[y]])

\* results.iter().filter(|r| r.result_type == "license")
LicenseResults(rows) == {r \in rows : r.result_type = "license"}

\* is_copyleft
is_copyleft(license_name) ==
    \E pattern \in {"GPL", "AGPL", "LGPL", "MPL", "EPL", "CDDL", "CPL", "Sleepycat"} :
        Contains(license_name, <<pattern>>)

\* is_unknown_or_proprietary
is_unknown_or_proprietary(license_name) ==
    \E pattern \in {"No_license_found", "Unknown", "Proprietary", "Commercial",
                    "See-file", "possibility"} :
        Contains(license_name, <<pattern>>)

\* the license names with a weight, whatever its sign
WeightedLicensesAnySign(rows, config) ==
    {n \in {r.license_name.v : r \in {r \in LicenseResults(rows) :
                                          r.license_name.tag = "Some"}} :
        get_license_weight(config, n).tag = "Some"}

\* the keys of license_risk_map: the license names with a weight above 0
WeightedLicenses(rows, config) ==
    {n \in {r.license_name.v : r \in {r \in LicenseResults(rows) :
                                          r.license_name.tag = "Some"}} :
        LET weight == get_license_weight(config, n)
        IN  weight.tag = "Some" /\ weight.v > 0}

\* copyleft_licenses
CopyleftLicenses(rows, config) ==
    {n \in WeightedLicenses(rows, config) : is_copyleft(n)}

\* unknown_licenses
UnknownLicenses(rows, config) ==
    {n \in WeightedLicenses(rows, config) :
        ~is_copyleft(n) /\ is_unknown_or_proprietary(n)}

\* base_score += weight, for each license of the list
LicenseTypePoints(licenses, config) ==
    SumOver([n \in licenses |-> get_license_weight(config, n).v])

\* affected_count += files.len(), for each license of the list
LicenseTypeFiles(licenses, rows) ==
    SumOver([n \in licenses |->
        Cardinality({r.file_path : r \in
            {r \in LicenseResults(rows) : r.license_name = Some(n)}})])

\* missing_spdx
MissingSpdx(rows) ==
    {r \in LicenseResults(rows) :
        /\ r.license_name.tag = "Some"
        /\ (r.license_spdx_id = None \/ r.license_spdx_id = Some(""))}

\* let points = count * 2
MissingSpdxPoints(rows) == Cardinality(MissingSpdx(rows)) * 2

\* low_confidence
LowConfidence(rows) ==
    {r \in LicenseResults(rows) : r.confidence.tag = "Some" /\ r.confidence.v < 70}

\* if confidence <= 0.5 { points += 15 } else if confidence <= 0.7 { points += 8 }
ConfidencePointsInclusive(confidence) ==
    IF confidence <= 50 THEN 15 ELSE IF confidence <= 70 THEN 8 ELSE 0

\* if confidence < 0.5 { points += 15 } else if confidence < 0.7 { points += 8 }
ConfidencePoints(confidence) ==
    IF confidence < 50 THEN 15 ELSE IF confidence < 70 THEN 8 ELSE 0

LowConfidencePoints(rows) ==
    SumOver([r \in LowConfidence(rows) |-> ConfidencePoints(r.confidence.v)])

\* ecc_results
EccResults(rows) == {r \in rows : r.result_type = "ecc"}

\* result.risk_severity.as_deref().unwrap_or("medium")
SeverityOf(r) == IF r.risk_severity.tag = "Some" THEN r.risk_severity.v ELSE "medium"

\* match severity { .. }, with 6 points in the last arm
SeverityPointsOtherAsMedium(severity) ==
    CASE severity = "critical" -> 20
      [] severity = "high" -> 12
      [] OTHER -> 6

\* match severity { "critical" => 20, "high" => 12, "medium" => 6, _ => 2 }
SeverityPoints(severity) ==
    CASE severity = "critical" -> 20
      [] severity = "high" -> 12
      [] severity = "medium" -> 6
      [] OTHER -> 2

EccPoints(rows) ==
    SumOver([r \in EccResults(rows) |-> SeverityPoints(SeverityOf(r))])

\* the rows counted in critical_count, high_count, medium_count, low_count
EccCount(rows, severities) ==
    Cardinality({r \in EccResults(rows) : SeverityOf(r) \in severities})

EccCountOther(rows) ==
    Cardinality({r \in EccResults(rows) :
                    SeverityOf(r) \notin {"critical", "high", "medium"}})

\* unique_licenses
UniqueLicenses(rows) ==
    {r.license_name.v : r \in {r \in LicenseResults(rows) : r.license_name.tag = "Some"}}

\* diversity_points
DiversityPoints(license_count) ==
    IF license_count > 15 THEN 10
    ELSE IF license_count >= 10 THEN 6
    ELSE IF license_count >= 5 THEN 3
    ELSE 0

\* base_score at the end
BaseScore(rows, config) ==
    LET weighted == WeightedLicenses(rows, config)
    IN  LicenseTypePoints({n \in weighted : is_copyleft(n)}, config)
          + LicenseTypePoints({n \in weighted :
                                  ~is_copyleft(n) /\ is_unknown_or_proprietary(n)},
                              config)
          + MissingSpdxPoints(rows)
          + LowConfidencePoints(rows)
          + EccPoints(rows)
          + DiversityPoints(Cardinality(UniqueLicenses(rows)))

\* let final_score = base_score
FinalScoreUncapped(base_score) == base_score

\* let final_score = std::cmp::min(base_score, 100)
FinalScore(base_score) == IF base_score < 100 THEN base_score ELSE 100

\* match final_score { 0..=24 => "low", 25..=50 => "medium", .. }
RiskLevelShifted(final_score) ==
    IF final_score \in 0..24 THEN "low"
    ELSE IF final_score \in 25..50 THEN "medium"
    ELSE IF final_score \in 51..75 THEN "high"
    ELSE "critical"

\* match final_score { 0..=25 => "low", 26..=50 => "medium",
\*                     51..=75 => "high", _ => "critical" }
RiskLevel(final_score) ==
    IF final_score \in 0..25 THEN "low"
    ELSE IF final_score \in 26..50 THEN "medium"
    ELSE IF final_score \in 51..75 THEN "high"
    ELSE "critical"

\* RiskFactor, without its description and details
RiskFactor(category, severity, affected_count) ==
    [category |-> category, severity |-> severity, affected_count |-> affected_count]

\* risk_factors at the end
RiskFactors(rows, config) ==
    LET copyleft_licenses == CopyleftLicenses(rows, config)
        unknown_licenses == UnknownLicenses(rows, config)
        missing_spdx == MissingSpdx(rows)
        low_confidence == LowConfidence(rows)
        critical_count == EccCount(rows, {"critical"})
        high_count == EccCount(rows, {"high"})
        medium_count == EccCount(rows, {"medium"})
        low_count == EccCountOther(rows)
        license_count == Cardinality(UniqueLicenses(rows))
    IN  (IF copyleft_licenses # {}
         THEN <<RiskFactor("copyleft_license", "high",
                           LicenseTypeFiles(copyleft_licenses, rows))>>
         ELSE <<>>)
        \o (IF unknown_licenses # {}
            THEN <<RiskFactor("unknown_license", "medium",
                              LicenseTypeFiles(unknown_licenses, rows))>>
            ELSE <<>>)
        \o (IF missing_spdx # {}
            THEN <<RiskFactor("missing_spdx_id", "medium", Cardinality(missing_spdx))>>
            ELSE <<>>)
        \o (IF low_confidence # {}
            THEN <<RiskFactor("low_confidence",
                              IF \E r \in low_confidence : r.confidence.v < 50
                              THEN "high" ELSE "medium",
                              Cardinality(low_confidence))>>
            ELSE <<>>)
        \o (IF critical_count > 0 \/ high_count > 0
            THEN <<RiskFactor("ecc_critical_high",
                              IF critical_count > 0 THEN "critical" ELSE "high",
                              critical_count + high_count)>>
            ELSE <<>>)
        \o (IF medium_count > 0 \/ low_count > 0
            THEN <<RiskFactor("ecc_medium_low", "medium", medium_count + low_count)>>
            ELSE <<>>)
        \o (IF DiversityPoints(license_count) > 0
            THEN <<RiskFactor("license_diversity", "low", license_count)>>
            ELSE <<>>)

\* Ok(RiskAssessment { score, level, factors })
calculate_risk_score(rows, config) ==
    LET final_score == FinalScore(BaseScore(rows, config))
    IN  [tag |-> "Ok",
         score |-> final_score,
         level |-> RiskLevel(final_score),
         factors |-> RiskFactors(rows, config)]

\* what ScanResult::find_by_scan_id returns
AllRows == findings \cup PermissiveRows(permissive)

\* ScanResult::create_license / create_ecc / create_copyright: one more row;
\* no assessment has been returned for the rows as they now are
StoreFinding ==
    /\ pc = "risk"
    /\ Cardinality(findings) < MaxFindings
    /\ \E row \in FindingRows \ findings : findings' = findings \cup {row}
    /\ risk_op' = "store"
    /\ assessment' = NoResult
    /\ UNCHANGED <<permissive, risk_config, rowvars, jobvars, fossvars,
                   mergevars, lookupvars, toolvars, joinvars, spdxvars>>

\* calculate_risk_score(pool, scan_id), requested once for the rows as they
\* are: one of the two queries fails, or the assessment is computed from the
\* rows
CalculateRiskScore ==
    /\ pc = "risk" /\ assessment = NoResult
    /\ \/ assessment' = Err(DbErr)
       \/ assessment' = calculate_risk_score(AllRows, risk_config)
    /\ risk_op' = "calculate"
    /\ UNCHANGED <<findings, permissive, risk_config, rowvars, jobvars, fossvars,
                   mergevars, lookupvars, toolvars, joinvars, spdxvars>>

(************************** SemgrepScanner::scan *****************************)
\* ScanError values of the Semgrep client and parser
InvalidPathErr == "Failed: Invalid repository path"
FolderNameErr  == "Failed: Could not determine repo folder name"
ExecuteErr     == "Failed: Failed to execute Semgrep"
ScanFailedErr  == "Failed: Semgrep scan failed"
Utf8Err        == "ParseError: Invalid UTF-8 in Semgrep output"
JsonErr        == "ParseError: Failed to parse Semgrep JSON"

\* one element of "results" in the tool's JSON: SemgrepResult with its path
\* and check_id, and extra.severity, a required field, present or missing
SemgrepResults ==
    [path : {"a.rs", "b.rs"},
     check_id : {"aes"},
     severity : {None, Some("ERROR"), Some("warning"), Some("INFO"), Some("note")}]

\* what the tool can write to its standard output: nothing, text that is
\* not JSON, a JSON object without "results", a JSON object with "results"
\* of at most MaxMergeLen elements
EmptyText == [kind |-> "empty"]
NotJson == [kind |-> "text"]
JsonObject(results) == [kind |-> "json", results |-> results]
Documents ==
    {EmptyText, NotJson, JsonObject(None)}
        \cup {JsonObject(Some(rs)) :
                rs \in UNION {[1..n -> SemgrepResults] : n \in 0..MaxMergeLen}}

\* std::process::Output.stdout: bytes that are not UTF-8, or a text
InvalidUtf8 == [utf8 |-> FALSE]
Utf8(text) == [utf8 |-> TRUE, text |-> text]

\* what running the tool gives: whether repo_path is valid Unicode and has a
\* final component, whether docker could be started, and the exit status
\* and standard output of the process
ToolRuns ==
    [path_to_str : BOOLEAN,
     file_name : BOOLEAN,
     spawned : BOOLEAN,
     status : 0..2,
     stdout : {InvalidUtf8} \cup {Utf8(d) : d \in Documents}]

\* the output is not looked at: every non-zero exit status is a failure
StdoutIgnored(stdout) == TRUE

\* output.stdout.is_empty()
StdoutIsEmpty(stdout) == stdout.utf8 /\ stdout.text = EmptyText

\* to_uppercase, on the severities of the model
ToUppercase(str) ==
    CASE str = "warning" -> "WARNING"
      [] str = "note" -> "NOTE"
      [] OTHER -> str

\* map_severity with "medium" in its last arm
map_severity_other_medium(semgrep_severity) ==
    LET upper == ToUppercase(semgrep_severity)
    IN  CASE upper = "ERROR" -> "high"
          [] upper = "WARNING" -> "medium"
          [] upper = "INFO" -> "low"
          [] OTHER -> "medium"

\* map_severity
map_severity(semgrep_severity) ==
    LET upper == ToUppercase(semgrep_severity)
    IN  CASE upper = "ERROR" -> "high"
          [] upper = "WARNING" -> "medium"
          [] upper = "INFO" -> "low"
          [] OTHER -> "low"

\* EccFinding { risk_severity, source, check_id, .. }
EccFinding(result) ==
    [risk_severity |-> map_severity(result.severity.v),
     source |-> Some("semgrep"),
     check_id |-> Some(result.check_id)]

\* results_by_file[file_path]: the findings of the elements with this path,
\* in their order
RECURSIVE ResultsByFile(_, _)
ResultsByFile(results, file_path) ==
    IF results = <<>>
    THEN <<>>
    ELSE (IF Head(results).path = file_path THEN <<EccFinding(Head(results))>> ELSE <<>>)
            \o ResultsByFile(Tail(results), file_path)

\* serde_json::from_str::<SemgrepOutput>(json_output) is Ok
MatchesSchema(text) ==
    /\ text.kind = "json"
    /\ text.results.tag = "Some"
    /\ \A i \in DOMAIN text.results.v : text.results.v[i].severity.tag = "Some"

\* the orders in which a HashMap with these keys can be iterated
Orders(keys) ==
    {order \in [1..Cardinality(keys) -> keys] :
        \A i, j \in DOMAIN order : order[i] = order[j] => i = j}

\* the values parse_semgrep_output(json_output) can return
parse_semgrep_output(text) ==
    IF ~MatchesSchema(text)
    THEN {Err(JsonErr)}
    ELSE LET results == text.results.v
         IN  {Ok([i \in DOMAIN order |->
                    ScanResult(order[i], <<>>, <<>>, ResultsByFile(results, order[i]))]) :
                order \in Orders({results[i].path : i \in DOMAIN results})}

\* self.execute_scan(repo_path).await?
ExecuteScan ==
    /\ pc = "semgrep" /\ sgpc = "execute_scan"
    /\ IF ~tool.path_to_str
       THEN /\ semgrep_ret' = Err(InvalidPathErr)
            /\ sgpc' = "done" /\ UNCHANGED json_output
       ELSE IF ~tool.file_name
       THEN /\ semgrep_ret' = Err(FolderNameErr)
            /\ sgpc' = "done" /\ UNCHANGED json_output
       ELSE IF ~tool.spawned
       THEN /\ semgrep_ret' = Err(ExecuteErr)
            /\ sgpc' = "done" /\ UNCHANGED json_output
       ELSE IF tool.status # 0 /\ StdoutIsEmpty(tool.stdout)
       THEN /\ semgrep_ret' = Err(ScanFailedErr)
            /\ sgpc' = "done" /\ UNCHANGED json_output
       ELSE IF ~tool.stdout.utf8
       THEN /\ semgrep_ret' = Err(Utf8Err)
            /\ sgpc' = "done" /\ UNCHANGED json_output
       ELSE /\ json_output' = Ok(tool.stdout.text)
            /\ sgpc' = "parse" /\ UNCHANGED semgrep_ret
    /\ UNCHANGED <<tool, rowvars, jobvars, fossvars, mergevars, riskvars, lookupvars, joinvars, spdxvars>>

\* parse_semgrep_output(&json_output)?, Ok(results)
ParseSemgrepOutput ==
    /\ pc = "semgrep" /\ sgpc = "parse"
    /\ semgrep_ret' \in parse_semgrep_output(json_output.n)
    /\ sgpc' = "done"
    /\ UNCHANGED <<tool, json_output, rowvars, jobvars, fossvars, mergevars,
                   riskvars, lookupvars, joinvars, spdxvars>>

(****************** calculate_risk_score: factor details *********************)
\* unique_licenses.into_iter().take(10).collect(): the first ten names of
\* the HashSet in one of the orders it can be iterated in
DiversityDetails(rows) ==
    LET unique_licenses == UniqueLicenses(rows)
        taken == IF Cardinality(unique_licenses) < 10
                 THEN Cardinality(unique_licenses) ELSE 10
    IN  {SubSeq(order, 1, taken) : order \in Orders(unique_licenses)}

\* risk_factors with the details of the license_diversity factor
WithDiversityDetails(factors, details) ==
    [i \in DOMAIN factors |->
        IF factors[i].category = "license_diversity"
        THEN [category |-> factors[i].category,
              severity |-> factors[i].severity,
              affected_count |-> factors[i].affected_count,
              details |-> details]
        ELSE factors[i]]

\* the assessments calculate_risk_score can return for these rows, those of
\* the license_diversity factor with its details
DetailedAssessments(rows, config) ==
    LET plain == calculate_risk_score(rows, config)
    IN  IF \E i \in DOMAIN plain.factors : plain.factors[i].category = "license_diversity"
        THEN {[plain EXCEPT !.factors = WithDiversityDetails(@, details)] :
                details \in DiversityDetails(rows)}
        ELSE {plain}

\* calculate_risk_score(pool, scan_id), any number of times for the same
\* rows: one of the two queries fails, or the assessment is computed from
\* the rows
CalculateRiskScoreDetailed ==
    /\ pc = "risk_details"
    /\ \/ assessment' = Err(DbErr)
       \/ assessment' \in DetailedAssessments(AllRows, risk_config)
    /\ risk_op' = "calculate"
    /\ UNCHANGED <<findings, permissive, risk_config, rowvars, jobvars, fossvars,
                   mergevars, lookupvars, toolvars, joinvars, spdxvars>>

(************************ the job's error log *******************************)
\* the places of the job whose error has been written with tracing::error!:
\* an adapter's error in the Err arm of its branch, and the error
\* execute_scan_internal returned, which is the error of the async block
\* only if workspace.cleanup() returned Ok
ErrorsLogged ==
    (IF fossology_result.tag = "Err" /\ fpc \in {"overall", "joined"}
     THEN {"fossology_scanner.scan"} ELSE {})
      \cup (IF semgrep_result.tag = "Err" /\ spc \in {"overall", "joined"}
            THEN {"semgrep_scanner.scan"} ELSE {})
      \cup (IF pc = "done" /\ internal_result.tag = "Err"
            THEN (IF cleanup_ret = "Err" THEN {"workspace.cleanup"}
                  ELSE IF cleanup_result.tag = "Err" THEN {"async block"}
                  ELSE {"workspace.create"})
            ELSE {})

(******************* the two branches of tokio::join! **********************)
\* tokio::join! polls its two async blocks in one task, the Fossology block
\* first: a block runs on the task's thread until it reaches an await that
\* is pending, and a std::process::Command::output() call keeps the thread
\* until the child process has exited.
ArchiveErr     == "Failed: Failed to create archive"
TarErr         == "Failed: tar command failed"
ReadArchiveErr == "Failed: Failed to read archive"
DecodeErr      == "Http: error decoding response body"

\* the row the job has written when it reaches the join
JoinRow ==
    UpdateOverallStatus(
        UpdateSemgrepStatus(
            UpdateFossologyStatus(
                UpdateStatus(CreatedScan, "in_progress", NoError, 1),
                "in_progress", NoError, 1),
            "in_progress", NoError, 1),
        1)

\* upload_from_path returns r: `?` in FossologyScanner::scan returns an Err
\* to the async block, an Ok goes on to wait_for_upload_ready
UploadReturns(r) ==
    /\ upload_ret' = r
    /\ upc' = "returned"
    /\ IF r.tag = "Err"
       THEN fossology_result' = r /\ fpc' = "write"
       ELSE fpc' = "wait_for_upload_ready" /\ UNCHANGED fossology_result

\* create_archive: Command::new("tar")...output() is entered
CreateArchive ==
    /\ pc = "join" /\ fpc = "upload_from_path" /\ upc = "create_archive"
    /\ polled = "none"
    /\ polled' = "fossology"
    /\ upc' = "tar"
    /\ UNCHANGED <<archive_exists, upload_response, upload_ret>>
    /\ UNCHANGED <<rowvars, jobvars, fossvars, mergevars, riskvars, lookupvars,
                   toolvars, spdxvars>>

\* create_archive: output() returns; tar could not be started, exited with
\* a failure status (whatever it wrote stays on disk), or wrote the archive
TarExit ==
    /\ pc = "join" /\ fpc = "upload_from_path" /\ upc = "tar"
    /\ polled = "fossology"
    /\ polled' = "none"
    /\ \/ /\ UploadReturns(Err(ArchiveErr))
          /\ UNCHANGED archive_exists
       \/ /\ UploadReturns(Err(TarErr))
          /\ archive_exists' \in BOOLEAN
       \/ /\ archive_exists' = TRUE
          /\ upc' = "read"
          /\ UNCHANGED <<upload_ret, fpc, fossology_result>>
    /\ UNCHANGED upload_response
    /\ UNCHANGED rowvars
    /\ UNCHANGED <<pc, spc, semgrep_result, fossology_write, semgrep_write,
                   to_store, cleanup_result, cleanup_ret, internal_result,
                   workspace_path, workspace_exists>>
    /\ UNCHANGED <<fossvars, mergevars, riskvars, lookupvars, toolvars, spdxvars>>

\* tokio::fs::read(&archive_path).await.map_err(..)?
ReadArchive ==
    /\ pc = "join" /\ fpc = "upload_from_path" /\ upc = "read"
    /\ polled = "none" /\ spc # "execute_scan"
    /\ \/ /\ UploadReturns(Err(ReadArchiveErr))
       \/ /\ upc' = "send"
          /\ UNCHANGED <<upload_ret, fpc, fossology_result>>
    /\ UNCHANGED <<polled, archive_exists, upload_response>>
    /\ UNCHANGED rowvars
    /\ UNCHANGED <<pc, spc, semgrep_result, fossology_write, semgrep_write,
                   to_store, cleanup_result, cleanup_ret, internal_result,
                   workspace_path, workspace_exists>>
    /\ UNCHANGED <<fossvars, mergevars, riskvars, lookupvars, toolvars, spdxvars>>

\* self.client.post(&url)...send().await?
SendUpload ==
    /\ pc = "join" /\ fpc = "upload_from_path" /\ upc = "send"
    /\ polled = "none"
    /\ \/ /\ UploadReturns(Err(HttpErr))
          /\ UNCHANGED upload_response
       \/ /\ upload_response' \in {"success", "rejected"}
          /\ upc' = "remove_file"
          /\ UNCHANGED <<upload_ret, fpc, fossology_result>>
    /\ UNCHANGED <<polled, archive_exists>>
    /\ UNCHANGED rowvars
    /\ UNCHANGED <<pc, spc, semgrep_result, fossology_write, semgrep_write,
                   to_store, cleanup_result, cleanup_ret, internal_result,
                   workspace_path, workspace_exists>>
    /\ UNCHANGED <<fossvars, mergevars, riskvars, lookupvars, toolvars, spdxvars>>

\* tokio::fs::remove_file(&archive_path).await.ok(), its failure discarded;
\* then response.json().await? or Err(Failed("Upload failed: .."))
RemoveArchive ==
    /\ pc = "join" /\ fpc = "upload_from_path" /\ upc = "remove_file"
    /\ polled = "none"
    /\ \E removed \in BOOLEAN : archive_exists' = (archive_exists /\ ~removed)
    /\ IF upload_response = "success"
       THEN \E r \in {Ok(0), Err(DecodeErr)} : UploadReturns(r)
       ELSE UploadReturns(Err(UploadErr))
    /\ UNCHANGED <<polled, upload_response>>
    /\ UNCHANGED rowvars
    /\ UNCHANGED <<pc, spc, semgrep_result, fossology_write, semgrep_write,
                   to_store, cleanup_result, cleanup_ret, internal_result,
                   workspace_path, workspace_exists>>
    /\ UNCHANGED <<fossvars, mergevars, riskvars, lookupvars, toolvars, spdxvars>>

\* FossologyScanner::scan after the upload: wait_for_upload_ready .. the
\* results, every await of it a request or a sleep
FossologyAfterUpload ==
    /\ pc = "join" /\ fpc = "wait_for_upload_ready"
    /\ polled = "none"
    /\ \E r \in {Ok(n) : n \in 0..MaxRows} \cup {Err(FossologyErr)} :
          fossology_result' = r
    /\ fpc' = "write"
    /\ UNCHANGED rowvars
    /\ UNCHANGED <<pc, spc, semgrep_result, fossology_write, semgrep_write,
                   to_store, cleanup_result, cleanup_ret, internal_result,
                   workspace_path, workspace_exists>>
    /\ UNCHANGED <<fossvars, mergevars, riskvars, lookupvars, toolvars, joinvars,
                   spdxvars>>

\* execute_scan up to Command::new("docker")...output(): the two early
\* returns, or the call is entered
ExecuteScanStart ==
    /\ pc = "join" /\ spc = "execute_scan"
    /\ polled = "none" /\ upc # "create_archive"
    /\ \/ /\ \E e \in {InvalidPathErr, FolderNameErr} : semgrep_result' = Err(e)
          /\ spc' = "write"
          /\ UNCHANGED polled
       \/ /\ polled' = "semgrep"
          /\ spc' = "output"
          /\ UNCHANGED semgrep_result
    /\ UNCHANGED <<upc, archive_exists, upload_response, upload_ret>>
    /\ UNCHANGED rowvars
    /\ UNCHANGED <<pc, fpc, fossology_result, fossology_write, semgrep_write,
                   to_store, cleanup_result, cleanup_ret, internal_result,
                   workspace_path, workspace_exists>>
    /\ UNCHANGED <<fossvars, mergevars, riskvars, lookupvars, toolvars, spdxvars>>

\* output() returns; the rest of execute_scan and parse_semgrep_output have
\* no await
DockerExit ==
    /\ pc = "join" /\ spc = "output"
    /\ polled = "semgrep"
    /\ polled' = "none"
    /\ \E r \in {Ok(n) : n \in 0..MaxRows}
                \cup {Err(e) : e \in {ExecuteErr, ScanFailedErr, Utf8Err, JsonErr}} :
          semgrep_result' = r
    /\ spc' = "write"
    /\ UNCHANGED <<upc, archive_exists, upload_response, upload_ret>>
    /\ UNCHANGED rowvars
    /\ UNCHANGED <<pc, fpc, fossology_result, fossology_write, semgrep_write,
                   to_store, cleanup_result, cleanup_ret, internal_result,
                   workspace_path, workspace_exists>>
    /\ UNCHANGED <<fossvars, mergevars, riskvars, lookupvars, toolvars, spdxvars>>

\* the steps of each branch
FossologyBranch ==
    \/ CreateArchive \/ TarExit \/ ReadArchive \/ SendUpload \/ RemoveArchive
    \/ FossologyAfterUpload \/ FossologyWrite \/ FossologyOverall

SemgrepBranch ==
    \/ ExecuteScanStart \/ DockerExit \/ SemgrepWrite \/ SemgrepOverall

(****************************** map_to_spdx *********************************)
\* a string is the sequence of its characters
UpperLetters ==
    <<"A", "B", "C", "D", "E", "F", "G", "H", "I", "J", "K", "L", "M", "N", "O", "P", "Q", "R", "S", "T", "U", "V", "W", "X", "Y", "Z">>
LowerLetters ==
    <<"a", "b", "c", "d", "e", "f", "g", "h", "i", "j", "k", "l", "m", "n", "o", "p", "q", "r", "s", "t", "u", "v", "w", "x", "y", "z">>

\* str::to_lowercase, on the letters A..Z
LowerOf(c) ==
    IF \E i \in DOMAIN UpperLetters : UpperLetters[i] = c
    THEN LowerLetters[CHOOSE i \in DOMAIN UpperLetters : UpperLetters[i] = c]
    ELSE c

to_lowercase(str) == [i \in DOMAIN str |-> LowerOf(str[i])]

\* str::to_uppercase, on the letters a..z
UpperOf(c) ==
    IF \E i \in DOMAIN LowerLetters : LowerLetters[i] = c
    THEN UpperLetters[CHOOSE i \in DOMAIN LowerLetters : LowerLetters[i] = c]
    ELSE c

to_uppercase(str) == [i \in DOMAIN str |-> UpperOf(str[i])]

\* str::replace(from, to) for patterns of one character
replace(str, from, to) == [i \in DOMAIN str |-> IF str[i] = from THEN to ELSE str[i]]

\* let spdx_map = [(pattern, spdx), ..]
spdx_map ==
    <<
       <<<<"m", "i", "t">>, "MIT">>,
       <<<<"a", "p", "a", "c", "h", "e", "-", "2", ".", "0">>, "Apache-2.0">>,
       <<<<"a", "p", "a", "c", "h", "e", "-", "l", "i", "c", "e", "n", "s", "e", "-", "2", ".", "0">>, "Apache-2.0">>,
       <<<<"g", "p", "l", "-", "2", ".", "0">>, "GPL-2.0-only">>,
       <<<<"g", "p", "l", "-", "3", ".", "0">>, "GPL-3.0-only">>,
       <<<<"l", "g", "p", "l", "-", "2", ".", "1">>, "LGPL-2.1-only">>,
       <<<<"l", "g", "p", "l", "-", "3", ".", "0">>, "LGPL-3.0-only">>,
       <<<<"b", "s", "d", "-", "2", "-", "c", "l", "a", "u", "s", "e">>, "BSD-2-Clause">>,
       <<<<"b", "s", "d", "-", "3", "-", "c", "l", "a", "u", "s", "e">>, "BSD-3-Clause">>,
       <<<<"m", "p", "l", "-", "2", ".", "0">>, "MPL-2.0">>,
       <<<<"i", "s", "c">>, "ISC">>,
       <<<<"c", "c", "0", "-", "1", ".", "0">>, "CC0-1.0">>,
       <<<<"u", "n", "l", "i", "c", "e", "n", "s", "e">>, "Unlicense">>,
       <<<<"a", "r", "t", "i", "s", "t", "i", "c", "-", "2", ".", "0">>, "Artistic-2.0">>,
       <<<<"z", "l", "i", "b">>, "Zlib">>
    >>

\* license_name.to_lowercase().replace(" ", "-")
Normalized(license_name) == replace(to_lowercase(license_name), " ", "-")

\* the entries whose pattern the normalized name contains
Hits(license_name) ==
    {i \in DOMAIN spdx_map : Contains(Normalized(license_name), spdx_map[i][1])}

\* for (pattern, spdx) in &spdx_map { if normalized.contains(pattern)
\* { return Some(spdx) } } None
map_to_spdx(license_name) ==
    IF Hits(license_name) = {}
    THEN None
    ELSE Some(spdx_map[CHOOSE i \in Hits(license_name) :
                          \A j \in Hits(license_name) : i <= j][2])

\* the patterns of the table
SpdxPatterns == {spdx_map[i][1] : i \in DOMAIN spdx_map}

\* the names of test_spdx_mapping
TestedNames ==
    {<<"M", "I", "T", " ", "L", "i", "c", "e", "n", "s", "e">>,
     <<"A", "p", "a", "c", "h", "e", " ", "L", "i", "c", "e", "n", "s", "e", " ", "2", ".", "0">>,
     <<"G", "P", "L", "-", "3", ".", "0">>,
     <<"U", "n", "k", "n", "o", "w", "n", " ", "L", "i", "c", "e", "n", "s", "e">>}

\* other names a license finding can carry
OtherNames ==
    {<<"G", "N", "U", " ", "L", "e", "s", "s", "e", "r", " ", "G", "e", "n", "e", "r", "a", "l", " ", "P", "u", "b", "l", "i", "c", " ", "L", "i", "c", "e", "n", "s", "e", " ", "3", ".", "0">>,
     <<"L", "G", "P", "L", "-", "3", ".", "0", "-", "o", "n", "l", "y">>,
     <<"L", "G", "P", "L", "-", "2", ".", "1", "-", "o", "n", "l", "y">>,
     <<"G", "P", "L", "-", "2", ".", "0", "-", "o", "n", "l", "y">>,
     <<"B", "S", "D">>,
     <<"P", "r", "o", "p", "r", "i", "e", "t", "a", "r", "y">>,
     <<>>}

\* the names map_to_spdx is called with: the patterns themselves, in upper
\* case, with " License" appended, the names above and short names over three
\* letters
LicenseTexts ==
    SpdxPatterns
      \cup {to_uppercase(p) : p \in SpdxPatterns}
      \cup {p \o <<" ", "L", "i", "c", "e", "n", "s", "e">> : p \in SpdxPatterns}
      \cup TestedNames \cup OtherNames
      \cup StringsOver({"m", "i", "t"})

\* finding.spdx_id.or_else(|| map_to_spdx(&finding.license))
MapToSpdx ==
    /\ pc = "map_to_spdx" /\ spdx_ret = NoResult
    /\ spdx_ret' = map_to_spdx(license_text)
    /\ UNCHANGED license_text
    /\ UNCHANGED <<rowvars, jobvars, fossvars, mergevars, riskvars, lookupvars,
                   toolvars, joinvars>>

(*************************** specifications ********************************)
\* Scan::create, then tokio::spawn(execute_scan_job)
Init ==
    /\ InitRow
    /\ IdleJoin /\ IdleSpdx
    /\ IdleJob
    /\ IdleFossology
    /\ IdleMerge
    /\ IdleRisk /\ IdleLookup /\ IdleSemgrep
    /\ pc = "find_by_id"

Next ==
    \/ Tick
    \/ FindScan
    \/ MarkInProgress
    \/ CreateWorkspace
    \/ CloneRepository
    \/ MarkFossologyInProgress
    \/ MarkSemgrepInProgress
    \/ MarkOverall
    \/ FossologyScan
    \/ FossologyWrite
    \/ FossologyOverall
    \/ SemgrepScan
    \/ SemgrepWrite
    \/ SemgrepOverall
    \/ JoinResults
    \/ StoreInsert
    \/ StoreDone
    \/ FinalOverall
    \/ CleanupWorkspace
    \/ MarkFailed

Spec == Init /\ [][Next]_vars

\* the job on a store whose Scan:: statements all return Ok
InitReliableStore == Init /\ ~flaky_store

SpecReliableStore == InitReliableStore /\ [][Next]_vars

\* the Scan:: statements on a created row, called with any arguments in any
\* order
InitCalls ==
    /\ scan = CreatedScan
    /\ scan_results = 0
    /\ now \in 1..MaxClock
    /\ lastOp = "create"
    /\ flaky_store = FALSE
    /\ IdleJoin /\ IdleSpdx
    /\ IdleJob
    /\ IdleFossology
    /\ IdleMerge
    /\ IdleRisk /\ IdleLookup /\ IdleSemgrep
    /\ pc = "calls"

NextCalls ==
    \/ CallUpdateStatus
    \/ CallUpdateFossologyStatus
    \/ CallUpdateSemgrepStatus
    \/ CallUpdateOverallStatus

SpecCalls == InitCalls /\ [][NextCalls]_vars

\* FossologyScanner::scan is called
InitFossology ==
    /\ InitRow
    /\ IdleJoin /\ IdleSpdx
    /\ flaky_store = FALSE
    /\ IdleJob
    /\ IdleMerge
    /\ IdleRisk /\ IdleLookup /\ IdleSemgrep
    /\ pc = "fossology"
    /\ apc = "upload_from_path" /\ calls = <<>> /\ scan_ret = NoResult
    /\ rpc = "idle" /\ attempt = 0 /\ elapsed_ms = 0 /\ ready_waits = <<>>
    /\ ready_response = "none" /\ ready_result = NoResult
    /\ jpc = "idle" /\ attempts = 0 /\ consecutive_errors = 0
    /\ job_slept = 0 /\ job_status = NoResult /\ job_history = <<>>
    /\ job_result = NoResult

NextFossology ==
    \/ UploadFromPath
    \/ CallWaitForUploadReady
    \/ ReadyLoopTop
    \/ ReadyRequest
    \/ ReadySleep
    \/ WaitForUploadReadyReturns
    \/ CreateJob
    \/ CallWaitForJobCompletion
    \/ JobLoopTop
    \/ JobRequest
    \/ JobSleep
    \/ WaitForJobCompletionReturns
    \/ GetLicenses
    \/ GetCopyrights

SpecFossology == InitFossology /\ [][NextFossology]_vars


\* merge_scan_results is called with two lists
InitMerge ==
    /\ InitRow
    /\ IdleJoin /\ IdleSpdx
    /\ flaky_store = FALSE
    /\ IdleJob
    /\ IdleFossology
    /\ IdleRisk /\ IdleLookup /\ IdleSemgrep
    /\ pc = "merge"
    /\ mpc = "call"
    /\ fossology_results \in ScanResultLists
    /\ semgrep_results \in ScanResultLists
    /\ merge_input = fossology_results

NextMerge == MergeScanResults

SpecMerge == InitMerge /\ [][NextMerge]_vars

\* get_license_weight is called with a configuration and a license name
InitLookup ==
    /\ InitRow
    /\ IdleJoin /\ IdleSpdx
    /\ flaky_store = FALSE
    /\ IdleJob
    /\ IdleFossology
    /\ IdleMerge
    /\ IdleRisk /\ IdleSemgrep
    /\ pc = "lookup"
    /\ lookup_config \in LookupConfigs
    /\ lookup_name \in StringsOver({"a", "b"})
    /\ lookup_ret = NoResult

NextLookup == GetLicenseWeight

SpecLookup == InitLookup /\ [][NextLookup]_vars

\* a scan with its permissive license findings, and the rows of risk_config
InitRisk ==
    /\ InitRow
    /\ IdleJoin /\ IdleSpdx
    /\ flaky_store = FALSE
    /\ IdleJob
    /\ IdleFossology
    /\ IdleMerge
    /\ IdleLookup /\ IdleSemgrep
    /\ pc = "risk"
    /\ findings = {}
    /\ permissive \in PermissiveCounts
    /\ risk_config \in RiskConfigs
    /\ risk_op = "none"
    /\ assessment = NoResult

NextRisk ==
    \/ StoreFinding
    \/ CalculateRiskScore

SpecRisk == InitRisk /\ [][NextRisk]_vars

\* SemgrepScanner::scan is called, and the tool behaves in one of the ways
\* of ToolRuns
InitSemgrep ==
    /\ InitRow
    /\ IdleJoin /\ IdleSpdx
    /\ flaky_store = FALSE
    /\ IdleJob
    /\ IdleFossology
    /\ IdleMerge
    /\ IdleRisk /\ IdleLookup
    /\ pc = "semgrep"
    /\ sgpc = "execute_scan"
    /\ tool \in ToolRuns
    /\ json_output = NoResult
    /\ semgrep_ret = NoResult

NextSemgrep ==
    \/ ExecuteScan
    \/ ParseSemgrepOutput

SpecSemgrep == InitSemgrep /\ [][NextSemgrep]_vars

\* calculate_risk_score is called for a scan with no or one finding
\* besides the permissive ones
InitRiskDetails ==
    /\ InitRow
    /\ IdleJoin /\ IdleSpdx
    /\ flaky_store = FALSE
    /\ IdleJob
    /\ IdleFossology
    /\ IdleMerge
    /\ IdleLookup /\ IdleSemgrep
    /\ pc = "risk_details"
    /\ findings \in {{}} \cup {{row} : row \in FindingRows}
    /\ permissive \in {0, 3, 4}
    /\ risk_config \in RiskConfigs
    /\ risk_op = "none"
    /\ assessment = NoResult

NextRiskDetails == CalculateRiskScoreDetailed

SpecRiskDetails == InitRiskDetails /\ [][NextRiskDetails]_vars

\* the join of execute_scan_internal, from the first poll of its two blocks
InitJoin ==
    /\ scan = JoinRow
    /\ scan_results = 0
    /\ now = 1
    /\ lastOp = "update_overall_status"
    /\ flaky_store \in BOOLEAN
    /\ IdleFossology
    /\ IdleMerge
    /\ IdleRisk /\ IdleLookup /\ IdleSemgrep /\ IdleSpdx
    /\ pc = "join"
    /\ fpc = "upload_from_path" /\ spc = "execute_scan"
    /\ fossology_result = NoResult /\ semgrep_result = NoResult
    /\ fossology_write = "none" /\ semgrep_write = "none"
    /\ to_store = 0
    /\ cleanup_result = NoResult
    /\ cleanup_ret = "none"
    /\ internal_result = NoResult
    /\ workspace_path = "base_dir/scan_id"
    /\ workspace_exists = TRUE
    /\ polled = "none" /\ upc = "create_archive" /\ archive_exists = FALSE
    /\ upload_response = "none" /\ upload_ret = NoResult

NextJoin ==
    \/ Tick
    \/ CreateArchive
    \/ TarExit
    \/ ReadArchive
    \/ SendUpload
    \/ RemoveArchive
    \/ FossologyAfterUpload
    \/ FossologyWrite
    \/ FossologyOverall
    \/ ExecuteScanStart
    \/ DockerExit
    \/ SemgrepWrite
    \/ SemgrepOverall

SpecJoin == InitJoin /\ [][NextJoin]_vars


\* map_to_spdx called once with any of the names
InitSpdx ==
    /\ InitRow
    /\ IdleJob
    /\ IdleFossology
    /\ IdleMerge
    /\ IdleRisk /\ IdleLookup /\ IdleSemgrep /\ IdleJoin
    /\ flaky_store = FALSE
    /\ pc = "map_to_spdx"
    /\ license_text \in LicenseTexts
    /\ spdx_ret = NoResult

NextSpdx == MapToSpdx

SpecSpdx == InitSpdx /\ [][NextSpdx]_vars

(******************************* claims ************************************)
\* the precedence table of the scan state machine: both completed ->
\* completed, else either failed -> failed, else either in_progress ->
\* in_progress, else pending
Precedence(f, s) ==
    IF {f, s} = {"completed"} THEN "completed"
    ELSE IF "failed" \in {f, s} THEN "failed"
    ELSE IF "in_progress" \in {f, s} THEN "in_progress"
    ELSE "pending"

\* C1 as claimed: in every state of a scan until its job has ended, the
\* overall status is the precedence-table value of the two sub-statuses
C1_OverallAlwaysDerived ==
    pc # "done" =>
        scan.status = Precedence(scan.fossology_status, scan.semgrep_status)

\* C1 amended: every change of the overall status is either a recompute to the
\* precedence-table value of the sub-statuses, or one of the two direct writes
\* of execute_scan_job: "in_progress" at the start, "failed" in its Err arm
C1_OverallChangesDerivedOrDirect ==
    [][ scan'.status # scan.status =>
          \/ scan'.status = Precedence(scan'.fossology_status, scan'.semgrep_status)
          \/ pc = "update_status" /\ scan'.status = "in_progress"
          \/ pc = "handler" /\ scan'.status = "failed" ]_vars

\* C1 witness: a recompute inside the join has moved the overall status to
\* failed while the other adapter is still running
C1_Witness ==
    /\ pc = "join"
    /\ lastOp = "update_overall_status"
    /\ scan.status = "failed"
    /\ scan.fossology_status = "failed"
    /\ scan.semgrep_status = "in_progress"

\* store_scan_results has returned Ok for the merged list
StoreFinished ==
    /\ pc \in {"final_overall", "cleanup", "handler", "done"}
    /\ fpc = "joined" /\ spc = "joined"
    /\ fossology_result.tag = "Ok" /\ semgrep_result.tag = "Ok"
    /\ to_store = 0

\* C2: whenever the overall status is completed, the merged findings have
\* been persisted (store_scan_results has finished)
C2_CompletedOnlyAfterPersisted ==
    scan.status = "completed" => StoreFinished

\* the errors of the adapters whose scan returned Err
AdapterErrors ==
    {r.e : r \in {x \in {fossology_result, semgrep_result} : x.tag = "Err"}}

\* C3: if an adapter's scan returned an error, no finding is persisted, the
\* job ends with overall status failed, the adapter's error is in its sub-job
\* error field and an adapter error is the overall error message
C3_AdapterErrorAbortsAndIsRetained ==
    (pc = "done" /\ AdapterErrors # {}) =>
        /\ scan_results = 0
        /\ scan.status = "failed"
        /\ fossology_result.tag = "Err" => scan.fossology_error = fossology_result.e
        /\ semgrep_result.tag = "Err" => scan.semgrep_error = semgrep_result.e
        /\ scan.error_message \in AdapterErrors

\* C4 as claimed: a job that acquired a workspace has removed the directory
\* by the time it ends
C4_WorkspaceRemovedAtEnd ==
    (pc = "done" /\ workspace_path # "none") => ~workspace_exists

\* C4 amended: a job that acquired a workspace has called Workspace::cleanup
\* by the time it ends, on every exit path, and the directory is gone
\* whenever that call returned Ok
C4_CleanupCalledOnEveryPath ==
    (pc \in {"handler", "done"} /\ workspace_path # "none") =>
        /\ cleanup_ret # "none"
        /\ cleanup_ret = "Ok" => ~workspace_exists

\* C4 witness: the clone failed and the job ended with the directory removed
C4_Witness ==
    /\ pc = "done"
    /\ cleanup_result = Err(CloneErr)
    /\ workspace_path # "none"
    /\ ~workspace_exists

\* the sub-status and error a branch writes for its result
FinalSubStatus(r) == IF r.tag = "Ok" THEN "completed" ELSE "failed"
FinalSubError(r) == IF r.tag = "Ok" THEN NoError ELSE r.e

\* C5: once the adapters have been started the job goes on only after both
\* scans have returned and both branches have issued their final sub-status
\* write, and a write that was applied stands whatever the other adapter did
C5_BothAdaptersRunToCompletion ==
    /\ (pc # "join" /\ (fpc # "idle" \/ spc # "idle")) =>
          /\ fpc = "joined" /\ spc = "joined"
          /\ fossology_result # NoResult /\ semgrep_result # NoResult
          /\ fossology_write # "none" /\ semgrep_write # "none"
    /\ fossology_write = "Ok" =>
          /\ scan.fossology_status = FinalSubStatus(fossology_result)
          /\ scan.fossology_error = FinalSubError(fossology_result)
    /\ semgrep_write = "Ok" =>
          /\ scan.semgrep_status = FinalSubStatus(semgrep_result)
          /\ scan.semgrep_error = FinalSubError(semgrep_result)

\* C5 witness: Fossology failed, Semgrep completed all the same, and the job
\* has ended
C5_Witness ==
    /\ pc = "done"
    /\ fossology_result.tag = "Err" /\ semgrep_result.tag = "Ok"
    /\ scan.fossology_status = "failed"
    /\ scan.semgrep_status = "completed"

\* C6: a job that has ended leaves the overall status completed or failed
C6_EndsCompletedOrFailed ==
    pc = "done" => scan.status \in {"completed", "failed"}

\* a step of a sub-status allowed by pending -> in_progress -> terminal
SubStep(a, b) ==
    \/ a = b
    \/ a = "pending" /\ b = "in_progress"
    \/ a = "in_progress" /\ b \in {"completed", "failed"}

\* C7: each sub-status only moves pending -> in_progress -> completed or
\* failed, and a terminal sub-status never changes
C7_SubStatusOrder ==
    [][ /\ SubStep(scan.fossology_status, scan'.fossology_status)
        /\ SubStep(scan.semgrep_status, scan'.semgrep_status) ]_vars

Timestamps ==
    {"started_at", "completed_at", "fossology_started_at",
     "fossology_completed_at", "semgrep_started_at", "semgrep_completed_at"}

\* C8: a started_at / completed_at timestamp that is set is never changed by
\* a later statement
C8_TimestampsWrittenOnce ==
    [][ \A c \in Timestamps : scan[c] # NullTime => scan'[c] = scan[c] ]_vars

\* C9: after a clone failure the job ends with overall status failed and the
\* clone error recorded, both sub-statuses pending and no adapter invoked
C9_CloneFailureForcesFailed ==
    (pc = "done" /\ cleanup_result = Err(CloneErr)) =>
        /\ scan.status = "failed"
        /\ scan.error_message = CloneErr
        /\ scan.fossology_status = "pending"
        /\ scan.semgrep_status = "pending"
        /\ fossology_result = NoResult /\ semgrep_result = NoResult

\* the precedence table, one entry per pair of sub-statuses
PrecedenceTable ==
    [ f \in Statuses |->
        [ s \in Statuses |->
            CASE f = "completed"   /\ s = "completed"   -> "completed"
              [] f = "completed"   /\ s = "failed"      -> "failed"
              [] f = "completed"   /\ s = "in_progress" -> "in_progress"
              [] f = "completed"   /\ s = "pending"     -> "pending"
              [] f = "failed"                           -> "failed"
              [] f = "in_progress" /\ s = "failed"      -> "failed"
              [] f = "in_progress" /\ s # "failed"      -> "in_progress"
              [] f = "pending"     /\ s = "failed"      -> "failed"
              [] f = "pending"     /\ s = "in_progress" -> "in_progress"
              [] f = "pending"     /\ s = "completed"   -> "pending"
              [] f = "pending"     /\ s = "pending"     -> "pending" ] ]

\* C10: update_overall_status leaves the overall status at the table value
\* of the pair of sub-statuses, and at failed when one sub-job is failed and
\* the other in_progress
C10_UpdateOverallIsTable ==
    lastOp = "update_overall_status" =>
        /\ scan.status = PrecedenceTable[scan.fossology_status][scan.semgrep_status]
        /\ {scan.fossology_status, scan.semgrep_status} = {"failed", "in_progress"}
              => scan.status = "failed"

\* C10 witness: a recompute on the pair (failed, in_progress)
C10_Witness ==
    /\ lastOp = "update_overall_status"
    /\ scan.fossology_status = "failed"
    /\ scan.semgrep_status = "in_progress"
    /\ scan.status = "failed"

\* the wait intervals of the readiness poll: 1, 2, 4, 8, 15 seconds, then 30
BackoffSchedule(k) == IF k <= 5 THEN <<1, 2, 4, 8, 15>>[k] ELSE 30

\* C11: with a service that never reports the upload ready, the readiness
\* poll returns Failed between 299 and 301 seconds after it started, having
\* made the 5 backoff-schedule attempts followed only by 30-second-interval
\* attempts.
C11_ReadyTimeoutWithin300s ==
    (rpc = "returned" /\ ready_result = Err(ReadyTimeoutErr)) =>
        /\ elapsed_ms >= 299 * 1000
        /\ elapsed_ms <= 301 * 1000
        /\ Len(ready_waits) >= 5
        /\ \A k \in 1..Len(ready_waits) : ready_waits[k] = BackoffSchedule(k)

\* a step of the readiness poll that ends an unsuccessful attempt: the
\* request came back and the upload is not reported ready
UnsuccessfulAttempt ==
    /\ rpc = "request" /\ rpc' # "request"
    /\ ready_response' \in {"no_hash", "bad_json", "503", "404"}

\* C12: in the readiness poll, after the k-th unsuccessful attempt the wait
\* before the next attempt is 1, 2, 4, 8, 15 seconds for k = 1..5 and 30
\* seconds for every k >= 6; a 503 response is an unsuccessful attempt (still
\* processing) and never ends the poll with an error.
C12_BackoffAnd503 ==
    [][ /\ UnsuccessfulAttempt =>
              rpc' = "sleep" /\ ready_result' = NoResult
        /\ (rpc = "request" /\ rpc' # "request" /\ ready_response' = "503") =>
              UnsuccessfulAttempt
        /\ (rpc = "sleep" /\ rpc' # "sleep") =>
              /\ rpc' = "top"
              /\ attempt = Len(ready_waits) + 1
              /\ elapsed_ms' - elapsed_ms = 1000 * BackoffSchedule(attempt)
              /\ ready_waits' = Append(ready_waits, BackoffSchedule(attempt)) ]_vars

\* the poll has waited 1, 2, 4, 8, 15, 30, 30 seconds, the last time after a
\* 503 response
C12_Witness ==
    /\ rpc = "top" /\ ready_response = "503"
    /\ ready_waits = <<1, 2, 4, 8, 15, 30, 30>>

\* the number of entries at the end of h that are "Err"
TrailingErrs(h) ==
    LET ks == {k \in 0..Len(h) : \A i \in (Len(h) - k + 1)..Len(h) : h[i] = "Err"}
    IN  CHOOSE k \in ks : \A m \in ks : m <= k

\* the number of entries of h that are "Err"
TotalErrs(h) == Cardinality({i \in 1..Len(h) : h[i] = "Err"})

JobPollReturned(r) == jpc = "returned" /\ job_result = r

\* C13: the job-completion poll makes at most 120 status requests, 5 seconds
\* apart (failed requests included in the count); if none of them reports a
\* terminal state it fails with Failed (timeout) instead of polling forever.
C13_AtMost120Requests ==
    /\ job_slept <= 120 * 5
    /\ jpc = "request" => job_slept <= 119 * 5 /\ job_slept = 5 * (attempts - 1)
    /\ jpc = "sleep" => job_slept = 5 * (attempts - 1)
    /\ JobPollReturned(Err(JobTimeoutErr)) => job_slept = 120 * 5
    /\ job_slept = 120 * 5 => jpc = "top" \/ JobPollReturned(Err(JobTimeoutErr))

\* the poll timed out, and its last requests include failed ones
C13_Witness ==
    /\ JobPollReturned(Err(JobTimeoutErr))
    /\ job_slept = 600
    /\ TotalErrs(job_history) >= 2

\* a step of the job-completion poll in which get_job_status returned
JobStatusStep == jpc = "request" /\ jpc' # "request"

\* C14: the job-completion poll returns success exactly when a poll reports
\* state `Completed`, returns Failed as soon as a poll reports state `Failed`,
\* and for any other reported state keeps polling.
C14_TerminalStates ==
    [][ /\ (jpc # "returned" /\ jpc' = "returned" /\ job_result' = Ok(0)) =>
              JobStatusStep /\ job_status' = OkStatus("Completed")
        /\ (JobStatusStep /\ job_status' = OkStatus("Completed")) =>
              jpc' = "returned" /\ job_result' = Ok(0)
        /\ (JobStatusStep /\ job_status' = OkStatus("Failed")) =>
              jpc' = "returned" /\ job_result' = Err(JobFailedErr)
        /\ (JobStatusStep /\ job_status'.tag = "Ok"
              /\ job_status'.status \notin {"Completed", "Failed"}) =>
              jpc' = "sleep" /\ job_result' = NoResult ]_vars

\* the poll returned success on `Completed` after polls that reported
\* other states
C14_Witness ==
    /\ JobPollReturned(Ok(0))
    /\ job_status = OkStatus("Completed")
    /\ job_slept >= 10
    /\ TotalErrs(job_history) = 0

\* C15: in the job-completion poll, a status request that fails transiently
\* is retried, up to 3 consecutive times; the whole operation fails with
\* Failed only once those 3 consecutive retries have been used up (the
\* failed request and its 3 retries, 4 failed requests in a row).
C15_FailsAfterThreeRetries ==
    JobPollReturned(Err(StatusCheckErr)) => TrailingErrs(job_history) >= 4

\* C15, as the code has it: a failed status request is retried while fewer
\* than 3 requests in a row have failed, and the operation fails with Failed
\* at the third consecutive failed request, that is after 2 retries.
C15_FailsAtThirdConsecutiveError ==
    /\ JobPollReturned(Err(StatusCheckErr)) => TrailingErrs(job_history) = 3
    /\ (jpc = "sleep" /\ job_status.tag = "Err") => TrailingErrs(job_history) \in {1, 2}
    /\ jpc \in {"top", "request", "sleep"} => TrailingErrs(job_history) < 3
    /\ TrailingErrs(job_history) >= 3 => JobPollReturned(Err(StatusCheckErr))

\* the poll failed at its third consecutive failed request
C15_Witness ==
    /\ JobPollReturned(Err(StatusCheckErr))
    /\ job_history = <<"Ok", "Err", "Err", "Err">>

\* C16: a successful status poll resets the consecutive-error counter to
\* zero: the job-completion poll never fails because of transient errors
\* unless they occur consecutively with no successful poll in between,
\* however many transient errors occur in total.
C16_SuccessResetsCounter ==
    /\ (jpc # "idle" /\ job_status.tag = "Ok") => consecutive_errors = 0
    /\ jpc # "idle" => consecutive_errors = TrailingErrs(job_history)
    /\ JobPollReturned(Err(StatusCheckErr)) =>
          /\ Len(job_history) >= 3
          /\ \A i \in (Len(job_history) - 2)..Len(job_history) : job_history[i] # "Ok"
    /\ (jpc = "returned" /\ TrailingErrs(job_history) < 3) =>
          job_result # Err(StatusCheckErr)

\* the poll returned success although 3 of its last 5 requests failed
C16_Witness ==
    /\ JobPollReturned(Ok(0))
    /\ job_history = <<"Err", "Err", "Ok", "Err", "Ok">>

\* the client calls made so far are the first calls of AdapterOrder
InAdapterOrder ==
    /\ Len(calls) <= Len(AdapterOrder)
    /\ \A i \in 1..Len(calls) : calls[i] = AdapterOrder[i]

\* C17: the adapter executes its steps strictly in the order upload ->
\* readiness poll -> job submission -> completion poll -> result fetch: a job
\* is never submitted before the readiness poll succeeded, results are never
\* fetched before the job reported Completed, and a failure of any step ends
\* the scan without executing any later step.
C17_AdapterStepOrder ==
    /\ InAdapterOrder
    /\ Len(calls) >= 3 => ready_result = Ok(0)
    /\ Len(calls) >= 5 => job_result = Ok(0) /\ job_status = OkStatus("Completed")
    /\ ready_result.tag = "Err" => Len(calls) = 2
    /\ job_result.tag = "Err" => Len(calls) = 4
    /\ scan_ret.tag = "Err" => apc = "returned"
    /\ scan_ret = Err(UploadErr) => Len(calls) = 1
    /\ scan_ret = Err(ReadyTimeoutErr) => Len(calls) = 2
    /\ scan_ret = Err(CreateJobErr) => Len(calls) = 3
    /\ scan_ret \in {Err(JobTimeoutErr), Err(JobFailedErr), Err(StatusCheckErr)} =>
          Len(calls) = 4
    /\ scan_ret = Err(LicensesErr) => Len(calls) = 5
    /\ scan_ret.tag = "Ok" => calls = AdapterOrder

\* a scan that went through all the steps and returned its results
C17_Witness ==
    /\ apc = "returned" /\ scan_ret.tag = "Ok"
    /\ calls = AdapterOrder

\* the paths of the records of a list
PathsOf(results) == {results[i].file_path : i \in DOMAIN results}

\* the entries merge_scan_results added to the primary list
AddedEntries == (Len(merge_input) + 1)..Len(fossology_results)

\* C18: merging a primary list A with an empty secondary list B leaves A
\* unchanged; for any A and B, every A record is kept (same path, same
\* licenses and copyrights, same position) and the set of paths added to the
\* result is exactly the set of B paths that are absent from A.
C18_MergeKeepsPrimary ==
    mpc = "done" =>
        /\ semgrep_results = <<>> => fossology_results = merge_input
        /\ Len(fossology_results) >= Len(merge_input)
        /\ \A i \in DOMAIN merge_input :
              /\ fossology_results[i].file_path = merge_input[i].file_path
              /\ fossology_results[i].licenses = merge_input[i].licenses
              /\ fossology_results[i].copyrights = merge_input[i].copyrights
        /\ {fossology_results[i].file_path : i \in AddedEntries}
              = PathsOf(semgrep_results) \ PathsOf(merge_input)

\* a merge of two non-empty lists in which one secondary path is in the
\* primary list and another is not
C18_Witness ==
    /\ mpc = "done"
    /\ merge_input # <<>>
    /\ PathsOf(semgrep_results) \cap PathsOf(merge_input) # {}
    /\ PathsOf(semgrep_results) \ PathsOf(merge_input) # {}
    /\ \E i \in DOMAIN merge_input : merge_input[i].licenses # <<>>

\* the control-flag findings of the records of a list with path p, in order
RECURSIVE EccFindingsAt(_, _)
EccFindingsAt(results, p) ==
    IF results = <<>>
    THEN <<>>
    ELSE (IF Head(results).file_path = p THEN Head(results).ecc_findings ELSE <<>>)
            \o EccFindingsAt(Tail(results), p)

\* the record of the primary list that stands for its path: the last one
LastWithPath(i) ==
    \A k \in DOMAIN merge_input :
        merge_input[k].file_path = merge_input[i].file_path => k <= i

\* C19: for a secondary record whose path exists in the primary list, merge
\* appends all of its control-flag findings (without deduplication) to the
\* primary record and discards the secondary record's license and copyright
\* findings; the primary record's license and copyright findings are
\* unchanged.
C19_MatchingPathAppendsEcc ==
    mpc = "done" =>
        \A i \in DOMAIN merge_input :
            /\ fossology_results[i].licenses = merge_input[i].licenses
            /\ fossology_results[i].copyrights = merge_input[i].copyrights
            /\ fossology_results[i].ecc_findings =
                  IF LastWithPath(i)
                  THEN merge_input[i].ecc_findings
                          \o EccFindingsAt(semgrep_results, merge_input[i].file_path)
                  ELSE merge_input[i].ecc_findings

\* a secondary record with license findings and a control-flag finding
\* that the primary record of the same path already has
C19_Witness ==
    /\ mpc = "done"
    /\ \E i \in DOMAIN merge_input, j \in DOMAIN semgrep_results :
          /\ semgrep_results[j].file_path = merge_input[i].file_path
          /\ semgrep_results[j].ecc_findings = <<"AES">>
          /\ merge_input[i].ecc_findings = <<"AES">>
          /\ semgrep_results[j].licenses # <<>>
          /\ merge_input[i].licenses = <<>>
          /\ fossology_results[i].ecc_findings = <<"AES", "AES">>
          /\ fossology_results[i].licenses = <<>>

PercentAt(pattern) == {i \in DOMAIN pattern : pattern[i] = "%"}

\* `p%` matches the names that start with p, `%s` the names that end with s,
\* `a%b` the names that start with a and end with b, and a pattern without
\* `%` the identical name only
WildcardMatches(pattern, name) ==
    IF PercentAt(pattern) = {}
    THEN name = pattern
    ELSE LET k == CHOOSE i \in PercentAt(pattern) : TRUE
         IN  /\ StartsWith(name, SubSeq(pattern, 1, k - 1))
             /\ EndsWith(name, SubSeq(pattern, k + 1, Len(pattern)))

C21_ScoreIsCappedSum ==
    assessment.tag = "Ok" =>
        LET sum == BaseScore(AllRows, risk_config)
        IN  /\ assessment.score \in 0..100
            /\ assessment.score = IF sum <= 100 THEN sum ELSE 100

\* an assessment whose contributions add up to more than 100
C21_Witness ==
    /\ assessment.tag = "Ok"
    /\ BaseScore(AllRows, risk_config) > 100
    /\ assessment.score = 100

(****************************** C22 *****************************************)
\* the score of these rows under the scan's rule list
ScoreOf(rows) == FinalScore(BaseScore(rows, risk_config))

\* C22: the score returned for a scan's findings is never below the score of
\* the same findings with one of them left out, under the same rule list
C22_MoreFindingsNeverLowerScore ==
    assessment.tag = "Ok" =>
        /\ \A r \in findings : ScoreOf(AllRows \ {r}) <= assessment.score
        /\ permissive > 0 =>
              ScoreOf(findings \cup PermissiveRows(permissive - 1)) <= assessment.score

\* an assessment of two findings, one of which raises the score and the
\* other of which leaves it as it is
C22_Witness ==
    /\ assessment.tag = "Ok"
    /\ \E r \in findings : ScoreOf(AllRows \ {r}) < assessment.score
    /\ \E r \in findings : ScoreOf(AllRows \ {r}) = assessment.score

(****************************** C23 *****************************************)
\* C23: the level of a returned assessment is low for a score of 0 to 25,
\* medium for 26 to 50, high for 51 to 75 and critical for 76 to 100
C23_LevelFollowsScore ==
    assessment.tag = "Ok" =>
        /\ assessment.score >= 0 /\ assessment.score <= 100
        /\ assessment.level = "low" <=> assessment.score <= 25
        /\ assessment.level = "medium" <=>
              (assessment.score >= 26 /\ assessment.score <= 50)
        /\ assessment.level = "high" <=>
              (assessment.score >= 51 /\ assessment.score <= 75)
        /\ assessment.level = "critical" <=> assessment.score >= 76

\* an assessment with the largest score of level low
C23_Witness ==
    assessment.tag = "Ok" /\ assessment.score = 25 /\ assessment.level = "low"

(****************************** C24 *****************************************)
\* the categories of the factors of the assessment
FactorCategories == {assessment.factors[i].category : i \in DOMAIN assessment.factors}

\* C24: the diversity contribution is 10 for 15 or more distinct license
\* names, 6 for 10 to 14, 3 for 5 to 9 and 0 for fewer than 5, and the
\* assessment has a diversity factor exactly when the contribution is above 0
C24_DiversityFrom15Names ==
    assessment.tag = "Ok" =>
        LET license_count == Cardinality({r.license_name.v : r \in LicenseResults(AllRows)})
            points == DiversityPoints(license_count)
        IN  /\ license_count >= 15 => points = 10
            /\ (license_count >= 10 /\ license_count <= 14) => points = 6
            /\ (license_count >= 5 /\ license_count <= 9) => points = 3
            /\ license_count < 5 => points = 0
            /\ "license_diversity" \in FactorCategories <=> points > 0

(****************************** C25 *****************************************)
\* the license findings of the scan without a standard identifier
WithoutIdentifier ==
    {r \in LicenseResults(AllRows) :
        r.license_spdx_id = None \/ r.license_spdx_id = Some("")}

\* C25: the contribution of the license findings without a standard
\* identifier is 2 points for every file that has at least one of them
C25_TwoPointsPerAffectedFile ==
    assessment.tag = "Ok" =>
        MissingSpdxPoints(AllRows)
            = 2 * Cardinality({r.file_path : r \in WithoutIdentifier})

(****************************** C26 *****************************************)
\* the control-flag findings of the scan whose severity is one of these
EccWith(severities) ==
    {r \in EccResults(AllRows) :
        r.risk_severity.tag = "Some" /\ r.risk_severity.v \in severities}

\* the control-flag findings of the scan with any other severity
EccWithOther ==
    {r \in EccResults(AllRows) :
        r.risk_severity.tag = "Some"
            /\ r.risk_severity.v \notin {"critical", "high", "medium"}}

\* the factors of the assessment with this category
FactorsOf(category) ==
    {i \in DOMAIN assessment.factors : assessment.factors[i].category = category}

ConfidenceIn(lo, hi) ==
    {r \in LicenseResults(AllRows) :
        r.confidence.tag = "Some" /\ r.confidence.v >= lo /\ r.confidence.v <= hi}

\* C27: the license findings contribute 15 points for each confidence below
\* 0.5, 8 for each confidence from 0.5 up to but not 0.7, and none from 0.7;
\* the assessment has one low-confidence factor exactly when a finding below
\* 0.7 exists, of severity high if one is below 0.5 and medium if not
C27_LowConfidencePoints ==
    assessment.tag = "Ok" =>
        LET below50 == Cardinality(ConfidenceIn(0, 49))
            below70 == Cardinality(ConfidenceIn(50, 69))
        IN  /\ LowConfidencePoints(AllRows) = 15 * below50 + 8 * below70
            /\ Cardinality(FactorsOf("low_confidence"))
                  = IF below50 + below70 > 0 THEN 1 ELSE 0
            /\ \A i \in FactorsOf("low_confidence") :
                  assessment.factors[i].severity
                      = IF below50 > 0 THEN "high" ELSE "medium"

\* an assessment of a finding at confidence 0.5 and one at 0.7: 8 points and
\* a factor of severity medium
C27_Witness ==
    /\ assessment.tag = "Ok"
    /\ ConfidenceIn(50, 50) # {} /\ ConfidenceIn(70, 70) # {}
    /\ Cardinality(findings) = 2
    /\ LowConfidencePoints(AllRows) = 8
    /\ \E i \in FactorsOf("low_confidence") : assessment.factors[i].severity = "medium"

(****************************** C29 *****************************************)
\* C29: the assessment does not fail because of a finding with an absent
\* field, a license finding without a confidence adds no low-confidence
\* points and a control-flag finding without a severity adds no control-flag
\* points
C29_AbsentFieldAddsNothing ==
    /\ assessment.tag = "Err" => assessment.e = DbErr
    /\ assessment.tag = "Ok" =>
          /\ LowConfidencePoints(AllRows)
                = LowConfidencePoints({r \in AllRows : r.confidence.tag = "Some"})
          /\ EccPoints(AllRows)
                = EccPoints({r \in AllRows : r.risk_severity.tag = "Some"})

(****************************** C30 *****************************************)
\* the tool was started and exited
ToolExited == tool.path_to_str /\ tool.file_name /\ tool.spawned

\* the tool's standard output is a JSON text of the expected schema
WellFormedOutput ==
    /\ tool.stdout.utf8
    /\ tool.stdout.text.kind = "json"
    /\ tool.stdout.text.results.tag = "Some"
    /\ \A i \in DOMAIN tool.stdout.text.results.v :
          tool.stdout.text.results.v[i].severity.tag = "Some"

\* the tool wrote nothing to its standard output
NoOutput == tool.stdout.utf8 /\ tool.stdout.text.kind = "empty"

\* scan returned ScanError::Failed / ScanError::ParseError
ReturnedFailed ==
    /\ semgrep_ret.tag = "Err"
    /\ semgrep_ret.e \in {InvalidPathErr, FolderNameErr, ExecuteErr, ScanFailedErr}
ReturnedParseError ==
    semgrep_ret.tag = "Err" /\ semgrep_ret.e \in {Utf8Err, JsonErr}

\* C30 as stated: scan fails with Failed whenever the tool exits with a
\* non-zero status, with ParseError whenever the output of a tool that
\* exited with status zero does not match the schema, and returns findings
\* only when the tool exited with status zero and its output is well-formed
C30_FailsOnEveryNonZeroExit ==
    sgpc = "done" =>
        /\ (ToolExited /\ tool.status # 0) => ReturnedFailed
        /\ (ToolExited /\ tool.status = 0 /\ ~WellFormedOutput) => ReturnedParseError
        /\ semgrep_ret.tag = "Ok" =>
              (ToolExited /\ tool.status = 0 /\ WellFormedOutput)

\* C30, amended: scan fails with Failed exactly when the tool could not be
\* run or exited with a non-zero status without output, with ParseError
\* exactly when the output it goes on to read does not match the schema,
\* and returns findings, one record for each path, exactly when the tool
\* exited, with whatever status, and its output is well-formed
C30_FailsOnNonZeroExitWithoutOutput ==
    sgpc = "done" =>
        /\ ReturnedFailed <=> (~ToolExited \/ (tool.status # 0 /\ NoOutput))
        /\ ReturnedParseError <=>
              (ToolExited /\ ~(tool.status # 0 /\ NoOutput) /\ ~WellFormedOutput)
        /\ semgrep_ret.tag = "Ok" <=> (ToolExited /\ WellFormedOutput)
        /\ semgrep_ret.tag = "Ok" =>
              LET results == tool.stdout.text.results.v
                  paths == {results[i].path : i \in DOMAIN results}
              IN  /\ {semgrep_ret.n[k].file_path : k \in DOMAIN semgrep_ret.n} = paths
                  /\ Len(semgrep_ret.n) = Cardinality(paths)

\* the tool exited with a non-zero status and scan returned the findings of
\* two files
C30_Witness ==
    /\ sgpc = "done"
    /\ ToolExited /\ tool.status # 0
    /\ semgrep_ret.tag = "Ok" /\ Len(semgrep_ret.n) = 2

(****************************** C32 *****************************************)
\* the severity the mapping is to give for a severity of the tool, whatever
\* the case of its letters
MappedSeverity(severity) ==
    IF severity \in {"ERROR", "error"} THEN "high"
    ELSE IF severity \in {"WARNING", "warning"} THEN "medium"
    ELSE "low"

\* the severities of the elements of the tool's "results" with this path,
\* mapped, in their order
RECURSIVE MappedSeveritiesAt(_, _)
MappedSeveritiesAt(results, file_path) ==
    IF results = <<>>
    THEN <<>>
    ELSE (IF Head(results).path = file_path
          THEN <<MappedSeverity(Head(results).severity.v)>> ELSE <<>>)
            \o MappedSeveritiesAt(Tail(results), file_path)

\* C32: a scan whose tool ran and wrote well-formed output succeeds whatever
\* the severities in it; every finding it returns has the severity high for
\* ERROR, medium for WARNING, low for INFO and low for any other severity of
\* the tool, hence one of high, medium and low
C32_SeverityMappingIsTotal ==
    sgpc = "done" =>
        /\ (ToolExited /\ WellFormedOutput) => semgrep_ret.tag = "Ok"
        /\ semgrep_ret.tag = "Ok" =>
              \A k \in DOMAIN semgrep_ret.n :
                  LET ecc_findings == semgrep_ret.n[k].ecc_findings
                  IN  /\ [i \in DOMAIN ecc_findings |-> ecc_findings[i].risk_severity]
                            = MappedSeveritiesAt(tool.stdout.text.results.v,
                                                 semgrep_ret.n[k].file_path)
                      /\ \A i \in DOMAIN ecc_findings :
                            ecc_findings[i].risk_severity \in {"high", "medium", "low"}

\* a scan that returned a finding of severity high for ERROR and one of
\* severity low for a severity the mapping does not know
C32_Witness ==
    /\ sgpc = "done" /\ semgrep_ret.tag = "Ok"
    /\ tool.stdout.text.results.v
          = <<[path |-> "a.rs", check_id |-> "aes", severity |-> Some("ERROR")],
              [path |-> "a.rs", check_id |-> "aes", severity |-> Some("note")]>>
    /\ Len(semgrep_ret.n) = 1
    /\ semgrep_ret.n[1].ecc_findings[1].risk_severity = "high"
    /\ semgrep_ret.n[1].ecc_findings[2].risk_severity = "low"

(****************************** C33 *****************************************)
\* C33: a computation over the findings and rules of the computation before
\* it returns the same score, the same level and the same factors with the
\* same details
C33_SameAssessmentTwice ==
    [][(assessment.tag = "Ok" /\ assessment'.tag = "Ok")
          => assessment' = assessment]_vars

(****************************** C34 *****************************************)
\* the places of the job where an error occurred
ErrorsOccurred ==
    (IF fossology_result.tag = "Err" THEN {"fossology_scanner.scan"} ELSE {})
      \cup (IF semgrep_result.tag = "Err" THEN {"semgrep_scanner.scan"} ELSE {})
      \cup (IF fossology_write = "Err" THEN {"update_fossology_status"} ELSE {})
      \cup (IF semgrep_write = "Err" THEN {"update_semgrep_status"} ELSE {})
      \cup (IF cleanup_result.tag = "Err" THEN {"async block"} ELSE {})
      \cup (IF cleanup_ret = "Err" THEN {"workspace.cleanup"} ELSE {})

\* the places of the job whose error is in an error field of the scan's row
ErrorsRecorded ==
    (IF fossology_result.tag = "Err" /\ scan.fossology_error = fossology_result.e
     THEN {"fossology_scanner.scan"} ELSE {})
      \cup (IF semgrep_result.tag = "Err" /\ scan.semgrep_error = semgrep_result.e
            THEN {"semgrep_scanner.scan"} ELSE {})
      \cup (IF cleanup_result.tag = "Err" /\ scan.error_message = cleanup_result.e
            THEN {"async block"} ELSE {})
      \cup (IF cleanup_ret = "Err" /\ scan.error_message = CleanupErr
            THEN {"workspace.cleanup"} ELSE {})

\* C34: when the job has ended, every error that occurred in it is in an
\* error field of the scan's row or in the log
C34_NoErrorDroppedSilently ==
    pc = "done" => ErrorsOccurred \subseteq (ErrorsRecorded \cup ErrorsLogged)

(****************************** C35 *****************************************)
\* C35: no step of the job changes an overall status that is completed
C35_CompletedIsAbsorbing ==
    [][scan.status = "completed" => scan'.status = "completed"]_vars

(****************************** C36 *****************************************)
\* C36: a job that has ended with overall status failed has persisted no
\* finding
C36_FailedScanHasNoFindings ==
    (pc = "done" /\ scan.status = "failed") => scan_results = 0

(****************************** C37 *****************************************)
\* C37: a job whose clone, adapters, merge and persistence succeeded ends
\* with overall status completed whatever workspace.cleanup() returned, and
\* a job whose scan body and cleanup both failed ends with the scan body's
\* error as the overall error
C37_CleanupNeverOverrides ==
    pc = "done" =>
        /\ cleanup_result = Ok(0) => scan.status = "completed"
        /\ (cleanup_result.tag = "Err" /\ cleanup_ret = "Err") =>
              scan.error_message = cleanup_result.e

(****************************** C38 *****************************************)
\* the exits of upload_from_path the archive was created for
UploadExits == {Ok(0), Err(UploadErr), Err(ReadArchiveErr), Err(HttpErr)}

\* C38: when upload_from_path has returned after a successful upload, an
\* upload the service rejected, a failure to read the archive or a
\* transport failure, the temporary archive it created is no longer on disk
C38_ArchiveRemovedOnEveryExit ==
    (upc = "returned" /\ upload_ret \in UploadExits) => ~archive_exists

(****************************** C31 *****************************************)
\* C31: while one branch is inside its subprocess invocation or a network
\* call and the other branch has steps left, a step of the other branch can
\* be taken
C31_BranchesDoNotBlockEachOther ==
    /\ (upc \in {"tar", "send"} /\ spc # "joined") => ENABLED SemgrepBranch
    /\ (spc = "output" /\ fpc # "joined") => ENABLED FossologyBranch

(****************************** C39 *****************************************)
\* C39: map_to_spdx called with the pattern of a table entry returns the
\* identifier of that entry, and called with a name that contains no
\* pattern of the table it returns None
C39_TableIsSelfConsistent ==
    spdx_ret # NoResult =>
        /\ \A i \in DOMAIN spdx_map :
              license_text = spdx_map[i][1] => spdx_ret = Some(spdx_map[i][2])
        /\ Hits(license_text) = {} => spdx_ret = None

====
